---------------------------- MODULE Spec2Model ----------------------------
(***************************************************************************)
(* Model of the document ingestion pipeline (src/document.c) and of the    *)
(* legacy garbage collector (src/legacy_gc.c) of the search engine.        *)
(*                                                                         *)
(* SpecIngest : one AddDocumentCtx from construction to completion.        *)
(* SpecGC     : GarbageCollector passes against a spec with writers.       *)
(***************************************************************************)
EXTENDS Integers, Sequences, FiniteSets, TLC

VARIABLES
  pc,        \* position of the ingest: idle, ready, pool, indexq, unblocking, ...
  aCtx,      \* the AddDocumentCtx (stateFlags, sv, fspecs, doc, status, ...)
  docTable,  \* spec->docs for the document key: id, metadata, max assigned id
  index,     \* spec's inverted / numeric / geo / tag indexes and stats
  obs,       \* observations: callback count, destructor count, use after free, ...
  host,      \* the host: the registered spec with its indexes, loading flag, lock
  gc,        \* the GarbageCollector object
  pass,      \* the PeriodicCallback in progress
  gobs       \* observations of the collector's passes

ivars == <<pc, aCtx, docTable, index, obs>>
gvars == <<host, gc, pass, gobs>>
vars == <<pc, aCtx, docTable, index, obs, host, gc, pass, gobs>>

-----------------------------------------------------------------------------
(* Bounds of the model *)

MaxFields == 2         \* fields of a submitted document
MaxStoredFields == 2   \* fields of the document reloaded from the store
MaxGrowth == 1         \* byte growth an index insert may report
MaxDocs == 2           \* documents indexed before the collector starts
MaxNewDocs == 1        \* documents added while the collector runs
MaxPasses == 2         \* passes of the collector
MaxUniqueId == 2       \* uniqueIds the host hands out
MaxRevision == 1       \* revisions of the numeric range tree
gcScanSize == 1        \* RSGlobalConfig.gcScanSize: blocks per Repair call
MaxReloads == 1        \* snapshot loads the host starts while the collector runs
MaxNodes == 4          \* nodes of the numeric range tree NextGcNode iterates

-----------------------------------------------------------------------------
(* Strings.  A text is head followed by fill filler letters; its length is *)
(* what RedisModule_StringPtrLen reports.                                  *)

Text(h, n) == [null |-> FALSE, head |-> h, fill |-> n]
NoText == [null |-> TRUE, head |-> <<>>, fill |-> 0]
StrLen(t) == Len(t.head) + t.fill

Digits == {"0", "1", "2", "3", "4", "5", "6", "7", "8", "9"}
DigitVal(c) ==
  CASE c = "0" -> 0 [] c = "1" -> 1 [] c = "2" -> 2 [] c = "3" -> 3 [] c = "4" -> 4
    [] c = "5" -> 5 [] c = "6" -> 6 [] c = "7" -> 7 [] c = "8" -> 8 [] OTHER -> 9

RECURSIVE DigitsVal(_)
DigitsVal(s) ==
  IF s = <<>> THEN 0 ELSE 10 * DigitsVal(SubSeq(s, 1, Len(s) - 1)) + DigitVal(s[Len(s)])

\* RedisModule_StringToDouble: ok only when the whole string is a number
StringToDouble(t) ==
  IF ~t.null /\ t.fill = 0 /\ t.head # <<>> /\ \A i \in 1..Len(t.head) : t.head[i] \in Digits
  THEN [ok |-> TRUE, val |-> DigitsVal(t.head)]
  ELSE [ok |-> FALSE, val |-> 0]

\* the position of the last space or comma, 0 when none
Strpbrk_Last(t) ==
  LET hits == {i \in 1..Len(t.head) : t.head[i] \in {" ", ","}}
  IN IF hits = {} THEN 0 ELSE CHOOSE i \in hits : \A j \in hits : i >= j

\* strpbrk(c, " ,"): position of the first space or comma, 0 when none
Strpbrk(t) ==
  LET hits == {i \in 1..Len(t.head) : t.head[i] \in {" ", ","}}
  IN IF hits = {} THEN 0 ELSE CHOOSE i \in hits : \A j \in hits : i <= j

-----------------------------------------------------------------------------
(* Schema *)

FULLTEXT == "FULLTEXT"
NUMERIC == "NUMERIC"
GEO == "GEO"
TAG == "TAG"

FieldSpecOf(nm, ix, ty, srt, inx, dyn, sidx) ==
  [name |-> nm, index |-> ix, types |-> ty, sortable |-> srt, indexable |-> inx,
   dynamic |-> dyn, sortIdx |-> sidx]

\* FieldSpec(0): the empty spec emplaced for a skipped field
EmptyFieldSpec == FieldSpecOf("", 0, {}, FALSE, FALSE, FALSE, 0 - 1)

Schema ==
  << FieldSpecOf("title", 0, {FULLTEXT}, TRUE,  TRUE,  FALSE, 0),
     FieldSpecOf("price", 1, {NUMERIC},  TRUE,  TRUE,  FALSE, 1),
     FieldSpecOf("loc",   2, {GEO},      FALSE, TRUE,  FALSE, 0 - 1),
     FieldSpecOf("tags",  3, {TAG},      TRUE,  TRUE,  FALSE, 2),
     FieldSpecOf("rank",  4, {NUMERIC},  TRUE,  FALSE, FALSE, 3),
     FieldSpecOf("label", 5, {FULLTEXT}, TRUE,  FALSE, FALSE, 4),
     FieldSpecOf("kind",  6, {GEO},      TRUE,  FALSE, FALSE, 5),
     FieldSpecOf("dyn",   7, {TAG},      TRUE,  FALSE, TRUE,  6) >>

SortablesLen == Cardinality({i \in 1..Len(Schema) : Schema[i].sortable})

\* IndexSpec::GetField: the FieldSpec of that name, or NULL (the empty spec)
GetField(nm) ==
  IF \E i \in 1..Len(Schema) : Schema[i].name = nm
  THEN Schema[CHOOSE i \in 1..Len(Schema) : Schema[i].name = nm]
  ELSE EmptyFieldSpec

IsNullSpec(fs) == fs.name = ""

-----------------------------------------------------------------------------
(* Documents *)

Field(nm, tx, ia) == [name |-> nm, text |-> tx, indexAs |-> ia]

TNum == Text(<<"4", "2">>, 0)
TWord == Text(<<"a", "b">>, 0)
TGeoComma == Text(<<"1", ",", "2">>, 0)
TGeoSpace == Text(<<"1", " ", "2">>, 0)
TGeoBoth == Text(<<"1", " ", "2", ",", "3">>, 0)
\* a text with no tag in it
TSep == Text(<<",">>, 0)
THalf == Text(<<"a">>, 511)
TLong == Text(<<"a">>, 1023)

FieldValues ==
  { Field("title", TWord, {}), Field("title", TLong, {}), Field("title", THalf, {}),
    Field("title", TWord, {NUMERIC}), Field("title", NoText, {NUMERIC}),
    Field("title", TNum, {FULLTEXT}),
    Field("price", TNum, {}), Field("price", TWord, {}),
    Field("loc", TGeoComma, {}), Field("loc", TGeoSpace, {}), Field("loc", TWord, {}),
    Field("loc", TGeoBoth, {}),
    Field("tags", TWord, {}), Field("tags", THalf, {}), Field("tags", TSep, {}),
    Field("rank", TNum, {}), Field("rank", TWord, {}),
    Field("label", TWord, {}),
    Field("kind", TWord, {}),
    Field("dyn", TWord, {}),
    Field("zz", TLong, {}), Field("zz", TWord, {FULLTEXT}) }

SeqsUpTo(S, n) == UNION {[1..k -> S] : k \in 0..n}

Docs == SeqsUpTo(FieldValues, MaxFields)


-----------------------------------------------------------------------------
(* QueryError *)

NoError == [code |-> "OK", msg |-> <<>>]

HasError(st) == st.code # "OK"

\* QueryError::SetError / SetErrorFmt / SetCode keep the first error recorded:
\* a status that already carries a code is left as it is.
SetError(st, code, msg) == IF HasError(st) THEN st ELSE [code |-> code, msg |-> msg]
SetCode(st, code) == SetError(st, code, <<>>)

-----------------------------------------------------------------------------
(* AddDocumentCtx *)

INDEXABLES == "INDEXABLES"
TEXTINDEXED == "TEXTINDEXED"
OTHERINDEXED == "OTHERINDEXED"
SORTABLES == "SORTABLES"
EMPTY == "EMPTY"
NOBLOCK == "NOBLOCK"

HasOnDemandDeletable == "HasOnDemandDeletable"

SVEmpty == [t |-> "NONE", s |-> NoText, n |-> 0]
SVStr(tx) == [t |-> "STR", s |-> tx, n |-> 0]
SVNum(v) == [t |-> "NUM", s |-> NoText, n |-> v]

NullSV == [null |-> TRUE, v |-> <<>>]
\* new RSSortingVector(len)
NewSV(len) == [null |-> FALSE, v |-> [i \in 1..len |-> SVEmpty]]
\* RSSortingVector::Put(idx, p, type): slot idx (0-based)
SVPut(sv, idx, val) == [sv EXCEPT !.v[idx + 1] = val]

NoTags == {}
NewFData == [numeric |-> 0, geoSlon |-> NoText, geoSlat |-> NoText, tags |-> NoTags]

NoDoc == [fields |-> <<>>, score |-> 0, payload |-> FALSE, docId |-> 0]

\* the members as the constructor leaves them before SetDocument
NewCtx ==
  [stateFlags |-> {}, status |-> NoError, docFlags |-> {}, sv |-> NullSV,
   fspecs |-> <<>>, fdatas |-> <<>>, doc |-> NoDoc, fwIdx |-> {}]

\* DocumentField::CheckIdx
CheckIdx(f, ty) == ty \in f.indexAs

\* a dedupe test that never finds the FieldSpec already used
DedupeHit_Never(st, fs) == FALSE

\* the test dedupes[fs->index] of SetDocument's field loop
DedupeHit(st, fs) == fs.index \in st.dedupe

\* a type verification that accepts every indexAs
TypeMismatch_Never(f, fs) == FALSE

\* the verification of a caller-specified indexAs against fs->types
TypeMismatch(f, fs) == f.indexAs # {} /\ ~(f.indexAs \subseteq fs.types)

\* One round of SetDocument's field loop for field i of d, on the loop state
\* st = [c (context), d (the document, whose indexAs the loop fills in),
\*       dedupe, numText, hasText, hasOther, ok].
SetDocumentField(st, i) ==
  LET f == st.d.fields[i]
      fs == GetField(f.name)
  IN
  IF IsNullSpec(fs) \/ f.text.null
  THEN [st EXCEPT !.c.fspecs = Append(@, EmptyFieldSpec)]
  ELSE
    LET c1 == [st.c EXCEPT !.fspecs = Append(@, fs)] IN
    IF DedupeHit(st, fs)
    THEN [st EXCEPT !.c = [c1 EXCEPT !.status =
                             SetError(@, "DUPFIELD", <<"Tried to insert twice", fs.name>>)],
                    !.ok = FALSE]
    ELSE
      LET c2 == IF fs.sortable THEN [c1 EXCEPT !.stateFlags = @ \cup {SORTABLES}] ELSE c1
          dd == st.dedupe \cup {fs.index}
      IN
      IF TypeMismatch(f, fs)
      THEN [st EXCEPT !.c = [c2 EXCEPT !.status =
                               SetError(@, "UNSUPPTYPE",
                                        <<"Tried to index field as type not specified in schema", fs.name>>)],
                      !.dedupe = dd,
                      !.ok = FALSE]
      ELSE
        LET ia == IF f.indexAs = {} THEN fs.types ELSE f.indexAs
            isText == fs.indexable /\ FULLTEXT \in ia
            isOther == fs.indexable /\ ia # {FULLTEXT}
            isGeo == fs.indexable /\ GEO \in ia
        IN [st EXCEPT !.c = [c2 EXCEPT !.docFlags =
                               IF isGeo THEN {HasOnDemandDeletable} ELSE @],
                      !.d.fields[i].indexAs = ia,
                      !.dedupe = dd,
                      !.numText = IF isText THEN @ + 1 ELSE @,
                      !.hasText = @ \/ isText,
                      !.hasOther = @ \/ isOther]

RECURSIVE SetDocumentLoop(_, _)
SetDocumentLoop(st, i) ==
  IF i > Len(st.d.fields) \/ ~st.ok THEN st
  ELSE SetDocumentLoop(SetDocumentField(st, i), i + 1)

\* state flags with OTHERINDEXED decided by the text fields
SetDocumentFlags_TextTwice(st) ==
  (st.c.stateFlags \ {INDEXABLES, TEXTINDEXED, OTHERINDEXED})
    \cup (IF st.hasText \/ st.hasOther THEN {INDEXABLES} ELSE {})
    \cup (IF ~st.hasText THEN {TEXTINDEXED} ELSE {})
    \cup (IF ~st.hasText THEN {OTHERINDEXED} ELSE {})

\* the state flags SetDocument computes after a loop that ended in st
SetDocumentFlags(st) ==
  (st.c.stateFlags \ {INDEXABLES, TEXTINDEXED, OTHERINDEXED})
    \cup (IF st.hasText \/ st.hasOther THEN {INDEXABLES} ELSE {})
    \cup (IF ~st.hasText THEN {TEXTINDEXED} ELSE {})
    \cup (IF ~st.hasOther THEN {OTHERINDEXED} ELSE {})

\* the sort vector after SetDocument: allocated when SORTABLES is set
SetDocumentSV(st, flags) ==
  IF SORTABLES \in flags /\ st.c.sv.null THEN NewSV(SortablesLen) ELSE st.c.sv

\* the last part of SetDocument, from the flags on, with the document moved
\* into the context
SetDocumentTail(st, flags, sv) ==
  [ok |-> TRUE,
   c |-> [st.c EXCEPT !.stateFlags =
                        IF sv.null /\ ~st.hasText /\ ~st.hasOther
                        THEN flags \cup {EMPTY} ELSE flags,
                      !.sv = sv,
                      !.doc = st.d],
   d |-> st.d]

SetDocumentEnd(st, flags) == SetDocumentTail(st, flags, SetDocumentSV(st, flags))

SetDocumentResult(st) ==
  IF ~st.ok THEN [ok |-> FALSE, c |-> st.c, d |-> st.d]
  ELSE SetDocumentEnd(st, SetDocumentFlags(st))

\* AddDocumentCtx::SetDocument(sp, d, oldFieldCount) on context c.
\* Result: [ok, c (the context afterwards), d (the caller's document afterwards)].
SetDocument(c, d) ==
  SetDocumentResult(
    SetDocumentLoop([c |-> [c EXCEPT !.stateFlags = @ \ {INDEXABLES, TEXTINDEXED, OTHERINDEXED},
                                     !.fdatas = [i \in 1..Len(d.fields) |-> NewFData]],
                     d |-> d, dedupe |-> {}, numText |-> 0,
                     hasText |-> FALSE, hasOther |-> FALSE, ok |-> TRUE], 1))

-----------------------------------------------------------------------------
(* Field preprocessors.  Each yields [ok, crash, c]: ok is the bool the     *)
(* C++ function returns, crash a null dereference inside it.                *)

PreOk(c) == [ok |-> TRUE, crash |-> FALSE, c |-> c]
PreFail(c) == [ok |-> FALSE, crash |-> FALSE, c |-> c]
PreCrash(c) == [ok |-> FALSE, crash |-> TRUE, c |-> c]

\* aCtx->sv->Put(...): sv must have been allocated
PutSortable(c, fs, val) ==
  IF c.sv.null \/ fs.sortIdx < 0 \/ fs.sortIdx >= Len(c.sv.v) THEN PreCrash(c)
  ELSE PreOk([c EXCEPT !.sv = SVPut(@, fs.sortIdx, val)])

\* the tokenizing half of FulltextPreprocessor; the forward index keeps
\* (ftId, text)
FulltextTokenize(r, fs, f) ==
  IF r.crash \/ ~fs.indexable THEN r
  ELSE PreOk([r.c EXCEPT !.fwIdx = @ \cup {<<fs.index, f.text>>}])

\* FieldSpec::FulltextPreprocessor
FulltextPreprocessor(c, fs, f, i) ==
  FulltextTokenize(IF fs.sortable THEN PutSortable(c, fs, SVStr(f.text)) ELSE PreOk(c), fs, f)

\* a numeric preprocessor that fails without naming the error
NumericPreprocessor_NoCode(c, fs, f, i) ==
  LET p == StringToDouble(f.text) IN
  IF ~p.ok THEN PreFail(c)
  ELSE
    LET c1 == [c EXCEPT !.fdatas[i].numeric = p.val] IN
    IF fs.sortable THEN PutSortable(c1, fs, SVNum(p.val)) ELSE PreOk(c1)

\* a numeric preprocessor that writes the sort vector before it looks at the
\* outcome of the parse
NumericPreprocessor_PutFirst(c, fs, f, i) ==
  LET p == StringToDouble(f.text)
      r == IF fs.sortable THEN PutSortable(c, fs, SVNum(p.val)) ELSE PreOk(c)
  IN IF r.crash THEN r
     ELSE IF ~p.ok THEN PreFail([r.c EXCEPT !.status = SetCode(@, "NOTNUMERIC")])
     ELSE PreOk([r.c EXCEPT !.fdatas[i].numeric = p.val])

\* FieldSpec::NumericPreprocessor
NumericPreprocessor(c, fs, f, i) ==
  LET p == StringToDouble(f.text) IN
  IF ~p.ok THEN PreFail([c EXCEPT !.status = SetCode(@, "NOTNUMERIC")])
  ELSE
    LET c1 == [c EXCEPT !.fdatas[i].numeric = p.val] IN
    IF fs.sortable THEN PutSortable(c1, fs, SVNum(p.val)) ELSE PreOk(c1)

\* FieldSpec::GeoPreprocessor: the text is cut at the first space or comma
GeoPreprocessor(c, fs, f, i) ==
  LET pos == Strpbrk(f.text) IN
  IF pos = 0 THEN PreFail([c EXCEPT !.status = SetCode(@, "GEOFORMAT")])
  ELSE PreOk([c EXCEPT
         !.fdatas[i].geoSlon = Text(SubSeq(f.text.head, 1, pos - 1), 0),
         !.fdatas[i].geoSlat = Text(SubSeq(f.text.head, pos + 1, Len(f.text.head)),
                                    f.text.fill)])

\* TagIndex::Tags(sep, flags, field): the non-empty pieces between separators
RECURSIVE SplitTags(_, _)
SplitTags(h, cur) ==
  IF h = <<>> THEN (IF cur = <<>> THEN {} ELSE {cur})
  ELSE IF Head(h) = ","
       THEN (IF cur = <<>> THEN {} ELSE {cur}) \cup SplitTags(Tail(h), <<>>)
       ELSE SplitTags(Tail(h), Append(cur, Head(h)))

Tags(tx) ==
  IF tx.null THEN NoTags
  ELSE LET parts == SplitTags(tx.head, <<>>) IN
       IF tx.fill = 0 THEN {Text(p, 0) : p \in parts}
       ELSE IF tx.head = <<>> \/ tx.head[Len(tx.head)] = ","
            THEN {Text(p, 0) : p \in parts} \cup {Text(<<>>, tx.fill)}
            ELSE LET last == CHOOSE k \in 1..Len(tx.head) :
                               /\ \A j \in k..Len(tx.head) : tx.head[j] # ","
                               /\ (k = 1 \/ tx.head[k - 1] = ",")
                     lastp == SubSeq(tx.head, last, Len(tx.head))
                 IN {Text(p, 0) : p \in (parts \ {lastp})} \cup {Text(lastp, tx.fill)}

\* FieldSpec::TagPreprocessor
TagPreprocessor(c, fs, f, i) ==
  LET tg == Tags(f.text)
      c1 == [c EXCEPT !.fdatas[i].tags = tg]
  IN IF tg = NoTags THEN PreOk(c1)
     ELSE IF fs.sortable THEN PutSortable(c1, fs, SVStr(f.text)) ELSE PreOk(c1)

\* the four handlers of one field, in the order of Document::AddToIndexes,
\* each skipped once an earlier one has failed
PreFulltext(r, fs, f, i) ==
  IF ~r.ok \/ ~CheckIdx(f, FULLTEXT) THEN r ELSE FulltextPreprocessor(r.c, fs, f, i)
PreNumeric(r, fs, f, i) ==
  IF ~r.ok \/ ~CheckIdx(f, NUMERIC) THEN r ELSE NumericPreprocessor(r.c, fs, f, i)
PreGeo(r, fs, f, i) ==
  IF ~r.ok \/ ~CheckIdx(f, GEO) THEN r ELSE GeoPreprocessor(r.c, fs, f, i)
PreTag(r, fs, f, i) ==
  IF ~r.ok \/ ~CheckIdx(f, TAG) THEN r ELSE TagPreprocessor(r.c, fs, f, i)

PreprocessField(c, fs, f, i) ==
  PreTag(PreGeo(PreNumeric(PreFulltext(PreOk(c), fs, f, i), fs, f, i), fs, f, i), fs, f, i)

RECURSIVE PreprocessLoop(_, _)
PreprocessLoop(r, i) ==
  IF ~r.ok \/ i > Len(r.c.doc.fields) THEN r
  ELSE IF i > Len(r.c.fspecs) THEN PreCrash(r.c)
  ELSE LET fs == r.c.fspecs[i]
           ff == r.c.doc.fields[i]
       IN IF IsNullSpec(fs) \/ ff.indexAs = {}
          THEN PreprocessLoop(r, i + 1)
          ELSE PreprocessLoop(PreprocessField(r.c, fs, ff, i), i + 1)

\* an exit that hands the context to the indexer whatever the loop returned
AddToIndexesExit_NoCleanup(r) ==
  IF r.crash THEN [exit |-> "crash", c |-> r.c]
  ELSE [exit |-> "indexer", c |-> r.c]

\* the exit of AddToIndexes after its loop ended in r
AddToIndexesExit(r) ==
  IF r.crash THEN [exit |-> "crash", c |-> r.c]
  ELSE IF r.ok THEN [exit |-> "indexer", c |-> r.c]
  ELSE [exit |-> "cleanup", c |-> [r.c EXCEPT !.status = SetCode(@, "GENERIC")]]

\* Document::AddToIndexes up to its exit: "indexer" (aCtx->indexer->Add),
\* "cleanup" (status set, Finish to follow) or "crash"
AddToIndexes(c) == AddToIndexesExit(PreprocessLoop(PreOk(c), 1))

-----------------------------------------------------------------------------
(* Document table of the spec, for the one document key of the model *)

NoMd == [present |-> FALSE, score |-> 0, payload |-> FALSE, sortVector |-> NullSV]

EmptyDocTable == [id |-> 0, md |-> NoMd, maxId |-> 0, deleted |-> {}]

\* the table after the document was once ingested with a title and a price
IndexedDocTable ==
  [id |-> 1,
   md |-> [present |-> TRUE, score |-> 1, payload |-> FALSE,
           sortVector |-> SVPut(SVPut(NewSV(SortablesLen), 0, SVStr(TWord)), 1, SVNum(42))],
   maxId |-> 1, deleted |-> {}]

-----------------------------------------------------------------------------
(* AddDocumentCtx::UpdateNoIndex.                                           *)
(* The BAIL macro sets the status, calls donecb and deletes the context,    *)
(* and control then falls through to the statement after it.  The run is    *)
(* u = [c, md, mdNull, cb, fr, uaf, late, exit, dedupes]: cb counts donecb  *)
(* calls, fr destructor runs, uaf a member access after the delete, late a  *)
(* metadata write after the first BAIL.  Accessing the freed context either *)
(* still finds the old bytes (ub = "intact") or faults (ub = "crash").      *)

UbOutcomes == {"intact", "crash"}

\* values an uninitialized double may hold
Garbage == {0, 7}

\* a member access: harmless before the delete, a use after free after it
Touch(u, ub) ==
  IF u.exit # "run" \/ u.fr = 0 THEN u
  ELSE [u EXCEPT !.uaf = TRUE, !.exit = IF ub = "crash" THEN "crash" ELSE @]

\* BAIL(s) once the access to status and donecb has been resolved in t
BailBody(t, msg) ==
  IF t.exit # "run" THEN t
  ELSE [t EXCEPT !.c.status = SetError(@, "GENERIC", msg),
                 !.cb = @ + 1,
                 !.fr = @ + 1]

\* BAIL(s)
Bail(u, ub, msg) == BailBody(Touch(u, ub), msg)

\* a write through md into the document table
MdWrite(u, md) == [u EXCEPT !.md = md, !.late = @ \/ (u.fr > 0 /\ md # u.md)]

\* md->sortVector->Put(idx, text, RS_SORTABLE_STR), f->text already read
PutStr(u, f, idx) ==
  IF u.exit # "run" THEN u
  ELSE IF f.text.null THEN [u EXCEPT !.exit = "crash"]
  ELSE MdWrite(u, [u.md EXCEPT !.sortVector = SVPut(@, idx, SVStr(f.text))])

\* md->sortVector->Put(idx, &numval, RS_SORTABLE_NUM) after the BAIL of a
\* text that did not parse: numval was never assigned
PutGarbage(u, idx, g) ==
  IF u.exit # "run" THEN u
  ELSE MdWrite(u, [u.md EXCEPT !.sortVector = SVPut(@, idx, SVNum(g))])

\* case INDEXFLD_T_NUMERIC, f->text already read, p the parse result
PutNum(u, p, idx, ub, g) ==
  IF u.exit # "run" THEN u
  ELSE IF p.ok
  THEN MdWrite(u, [u.md EXCEPT !.sortVector = SVPut(@, idx, SVNum(p.val))])
  ELSE PutGarbage(Bail(u, ub, "Could not parse numeric index value"), idx, g)

\* the switch on fs->types
SortableSwitch(u, fs, f, ub, g) ==
  IF fs.dynamic THEN [u EXCEPT !.exit = "throw"]
  ELSE IF fs.types = {FULLTEXT} \/ fs.types = {TAG}
  THEN PutStr(Touch(u, ub), f, fs.sortIdx)
  ELSE IF fs.types = {NUMERIC}
  THEN PutNum(Touch(u, ub), StringToDouble(f.text), fs.sortIdx, ub, g)
  ELSE Bail(u, ub, "Unsupported sortable type")

\* from "if (!md->sortVector)" to the end of the loop body
SortableAlloc(u, fs, f, ub, g) ==
  IF u.exit # "run" \/ fs.sortIdx < 0 THEN u
  ELSE SortableSwitch(
         IF u.md.sortVector.null
         THEN MdWrite(u, [u.md EXCEPT !.sortVector = NewSV(SortablesLen)])
         ELSE u,
         fs, f, ub, g)

\* dedupes[fs->index] = 1 and what follows
SortableMark(u, fs, f, ub, g) ==
  SortableAlloc([u EXCEPT !.dedupes = @ \cup {fs.index}], fs, f, ub, g)

\* the body of the sortables loop for one field with FieldSpec fs
UpdateSortableSpec(u, fs, f, ub, g) ==
  IF IsNullSpec(fs) \/ ~fs.sortable THEN u
  ELSE SortableMark(
         IF fs.index \in u.dedupes THEN Bail(u, ub, "Requested to index field twice") ELSE u,
         fs, f, ub, g)

UpdateSortable(u, f, ub, g) == UpdateSortableSpec(u, GetField(f.name), f, ub, g)

\* one round of the loop: the field is read from the context's document
UpdateSortableAt(t, i, ub, g) ==
  IF t.exit # "run" THEN t ELSE UpdateSortable(t, t.c.doc.fields[i], ub, g)

RECURSIVE UpdateSortablesLoop(_, _, _, _)
UpdateSortablesLoop(u, i, ub, g) ==
  IF u.exit # "run" \/ i > Len(u.c.doc.fields) THEN u
  ELSE UpdateSortablesLoop(UpdateSortableAt(Touch(u, ub), i, ub, g), i + 1, ub, g)

\* md->score = doc.score: md may be NULL here
UpdateScore(u, mdNull) ==
  IF u.exit # "run" THEN u
  ELSE IF mdNull THEN [u EXCEPT !.exit = "crash"]
  ELSE MdWrite(u, [u.md EXCEPT !.score = u.c.doc.score])

UpdatePayload(u) ==
  IF u.exit = "run" /\ u.c.doc.payload
  THEN MdWrite(u, [u.md EXCEPT !.payload = TRUE])
  ELSE u

UpdateSortables(u, ub, g) ==
  IF u.exit = "run" /\ SORTABLES \in u.c.stateFlags
  THEN UpdateSortablesLoop(u, 1, ub, g)
  ELSE u

UpdateReturn(u) == [u EXCEPT !.exit = IF @ = "run" THEN "return" ELSE @]

\* the second check of UpdateNoIndex, on the metadata of docId
UpdateMdCheck(u, mdNull, ub) ==
  IF mdNull THEN Bail(u, ub, "Couldn't load document metadata") ELSE u

\* UpdateNoIndex on context c against table dt; ub and g resolve the
\* undefined behaviour (freed context, uninitialized numval).
\* Result: the run u = [c, md, cb, fr, uaf, late, exit, dedupes].
UpdateNoIndex(c, dt, ub, g) ==
  UpdateReturn(
    UpdateSortables(
      UpdatePayload(
        UpdateScore(
          UpdateMdCheck(
            IF dt.id = 0
            THEN Bail([c |-> c, md |-> dt.md, cb |-> 0, fr |-> 0, uaf |-> FALSE,
                       late |-> FALSE, exit |-> "run", dedupes |-> {}],
                      ub, "Couldn't load old document")
            ELSE [c |-> c, md |-> dt.md, cb |-> 0, fr |-> 0, uaf |-> FALSE,
                  late |-> FALSE, exit |-> "run", dedupes |-> {}],
            dt.id = 0 \/ ~dt.md.present, ub),
          dt.id = 0 \/ ~dt.md.present)),
      ub, g))

-----------------------------------------------------------------------------
(* Indexes of the spec and the bulk indexer *)

EmptyIndex ==
  [inverted |-> {}, numeric |-> {}, geo |-> {}, tags |-> {},
   stats |-> [numRecords |-> 0, invertedSize |-> 0]]

\* IndexBulkData::numericIndexer (the index key opens)
numericIndexer(ix, c, i, sz) ==
  [ix EXCEPT !.numeric = @ \cup {<<c.doc.docId, c.fdatas[i].numeric>>},
             !.stats.invertedSize = @ + sz,
             !.stats.numRecords = @ + 1]

\* IndexBulkData::geoIndexer (AddStrings succeeds)
geoIndexer(ix, c, i, sz) ==
  [ix EXCEPT !.geo = @ \cup {<<c.doc.docId, c.fdatas[i].geoSlon, c.fdatas[i].geoSlat>>}]

\* IndexBulkData::tagIndexer (the index key opens)
tagIndexer(ix, c, i, sz) ==
  [ix EXCEPT !.tags = @ \cup {<<t, c.doc.docId>> : t \in c.fdatas[i].tags},
             !.stats.invertedSize = @ + sz,
             !.stats.numRecords = @ + 1]

\* IndexBulkData::Add: the handlers of the type bits of field i, in position
\* order (FULLTEXT, NUMERIC, GEO, TAG)
BulkAdd(ix, c, i, sz) ==
  LET ia == c.doc.fields[i].indexAs
      x1 == IF NUMERIC \in ia THEN numericIndexer(ix, c, i, sz) ELSE ix
      x2 == IF GEO \in ia THEN geoIndexer(x1, c, i, sz) ELSE x1
      x3 == IF TAG \in ia THEN tagIndexer(x2, c, i, sz) ELSE x2
  IN x3

RECURSIVE BulkLoop(_, _, _, _)
BulkLoop(ix, c, i, sz) ==
  IF i > Len(c.doc.fields) \/ i > Len(c.fspecs) THEN ix
  ELSE LET fs == c.fspecs[i] IN
       IF IsNullSpec(fs) \/ fs.types = {FULLTEXT} \/ ~fs.indexable
       THEN BulkLoop(ix, c, i + 1, sz)
       ELSE BulkLoop(BulkAdd(ix, c, i, sz), c, i + 1, sz)

\* The indexer's consumer for one context: assign the next doc id (the old
\* id of the key is marked deleted), merge the forward index, commit the
\* non-text fields, publish the metadata.  Result: [c, dt, ix].
IndexerAdd(c, dt, ix, sz) ==
  LET id == dt.maxId + 1
      c1 == [c EXCEPT !.doc.docId = id]
      ix1 == [ix EXCEPT !.inverted = @ \cup {<<e[1], e[2], id>> : e \in c.fwIdx}]
  IN [c |-> c1,
      dt |-> [id |-> id,
              md |-> [present |-> TRUE, score |-> c.doc.score, payload |-> c.doc.payload,
                      sortVector |-> c.sv],
              maxId |-> id,
              deleted |-> dt.deleted \cup (IF dt.id = 0 THEN {} ELSE {dt.id})],
      ix |-> BulkLoop(ix1, c1, 1, sz)]

-----------------------------------------------------------------------------
(* Submit and what follows it *)

SELF_EXEC_THRESHOLD == 1024

\* AddDocumentCtx::IsBlockable
IsBlockable(c) == NOBLOCK \notin c.stateFlags

\* Document::LoadSchemaFields: the fields the store holds for the key, one
\* per schema field at most, in schema order, with no indexAs; or a failure
StoredFieldValues ==
  { Field("title", TWord, {}), Field("title", TLong, {}),
    Field("price", TNum, {}), Field("price", TWord, {}),
    Field("loc", TGeoComma, {}), Field("tags", TWord, {}) }

StoredDocs ==
  { d \in SeqsUpTo(StoredFieldValues, MaxStoredFields) :
      \A i, j \in 1..Len(d) : i < j => GetField(d[i].name).index < GetField(d[j].name).index }

Reloads == {[ok |-> FALSE, fields |-> <<>>]} \cup {[ok |-> TRUE, fields |-> d] : d \in StoredDocs}

\* the end of ReplaceMerge: the result r of SetDocument is dropped, and doc,
\* which SetDocument was handed in place, keeps what the call made of it
ReplaceMergeEnd(r) ==
  [returned |-> FALSE, c |-> [r.c EXCEPT !.doc = r.d], cb |-> 0, fr |-> 0, setOk |-> r.ok]

ReplaceMergeSet(c1) == ReplaceMergeEnd(SetDocument(c1, c1.doc))

\* AddDocumentCtx::ReplaceMerge with the outcome ld of LoadSchemaFields.
\* Result: [returned (its bool), c, cb, fr, setOk (what SetDocument returned)].
ReplaceMerge(c, ld) ==
  IF ~ld.ok
  THEN [returned |-> TRUE,
        c |-> [c EXCEPT !.doc.fields = <<>>,
                        !.status = SetError(@, "NODOC", "Could not load existing document")],
        cb |-> 1, fr |-> 1, setOk |-> TRUE]
  ELSE ReplaceMergeSet([c EXCEPT !.doc.fields = ld.fields])

\* the totalSize loop of Submit
RECURSIVE TotalSize(_, _)
TotalSize(c, ii) ==
  IF ii > Len(c.doc.fields) THEN 0
  ELSE (IF ii <= Len(c.fspecs) /\ ~IsNullSpec(c.fspecs[ii])
           /\ c.doc.fields[ii].indexAs \cap {FULLTEXT, TAG} # {}
        THEN StrLen(c.doc.fields[ii].text) ELSE 0)
       + TotalSize(c, ii + 1)

\* the dispatch test of Submit
Offload(c) == TotalSize(c, 1) >= SELF_EXEC_THRESHOLD /\ IsBlockable(c)

-----------------------------------------------------------------------------
(* The garbage collector (src/legacy_gc.c).                                 *)
(*                                                                          *)
(* host  : what the host keeps: the spec registered under the spec key      *)
(*         (uniqueId, document table, stats, the posting list of one term,  *)
(*         one numeric range tree, one tag value), the snapshot-loading     *)
(*         flag and the thread-safe lock.                                   *)
(* gc    : the GarbageCollector object.                                     *)
(* pass  : the locals of the PeriodicCallback in progress.                  *)
(* gobs  : observations of the passes.                                      *)
(* A posting list is a sequence of blocks, a block the set of doc ids it    *)
(* holds.  A pass is cut where a collector yields (sctx->Refresh); writers  *)
(* run between passes and at the yields.                                    *)

SpecKey == "idx"
\* IndexSpec::GetFormattedKey(field, type) of the numeric and of the tag field
NumericKey == "nm:idx/price"
TagKey == "tag:idx/tags"

Min(a, b) == IF a <= b THEN a ELSE b
Max(a, b) == IF a >= b THEN a ELSE b

RECURSIVE BlocksCard(_)
BlocksCard(blocks) ==
  IF blocks = <<>> THEN 0 ELSE Cardinality(Head(blocks)) + BlocksCard(Tail(blocks))

\* ptr is the address of the tree OpenNumericIndex returns, 0 for NULL
\* nodes has, in the order of NumericRangeTreeIterator, whether each node of
\* the tree owns a range
NoTree == [ptr |-> 0, revisionId |-> 0, numEntries |-> 0, entries |-> <<>>, nodes |-> <<>>]

NullSpec ==
  [exists |-> FALSE, uniqueId |-> 0, live |-> {}, deleted |-> {}, maxId |-> 0,
   stats |-> [numRecords |-> 0, invertedSize |-> 0],
   term |-> <<>>, num |-> NoTree, tag |-> <<>>, tag2 |-> <<>>]

\* a spec just created under SpecKey: no document, an empty tree for the
\* numeric field
NewSpec(uid) ==
  [NullSpec EXCEPT !.exists = TRUE, !.uniqueId = uid, !.num.ptr = uid,
                   !.num.nodes = <<TRUE>>]

\* the spec after MaxDocs documents were indexed (each with the term, a
\* price and the tag) and those outside live were deleted
IndexedSpec(live) ==
  [exists |-> TRUE, uniqueId |-> 1, live |-> live, deleted |-> (1..MaxDocs) \ live,
   maxId |-> MaxDocs,
   stats |-> [numRecords |-> 3 * MaxDocs, invertedSize |-> 3 * MaxDocs],
   term |-> <<1..(MaxDocs - 1), {MaxDocs}>>,
   num |-> [ptr |-> 1, revisionId |-> 0, numEntries |-> MaxDocs, entries |-> <<1..MaxDocs>>,
            nodes |-> <<TRUE>>],
   tag |-> <<{1}, 2..MaxDocs>>,
   tag2 |-> <<>>]

\* hz is kept in hundredths of a hertz
GC_MIN_HZ == 100
GC_MAX_HZ == 10000
InitialHz == 1000
\* the frequencies a user may configure: below the minimum, inside the
\* range, above the maximum
InitialHzs == {GC_MIN_HZ \div 2, InitialHz, GC_MAX_HZ * 2}

SPEC_STATUS_OK == 1
SPEC_STATUS_INVALID == 2

\* NumericFieldGC::NumericFieldGC(rt); it is the position of gcIterator
NewNumericFieldGC(rt) == [rt |-> rt.ptr, revisionId |-> rt.revisionId, it |-> 0]

\* GarbageCollector::GarbageCollector: `specUniqueId = specUniqueId` assigns
\* the parameter to itself, the member keeps whatever value u it had;
\* `hz = initialHZ` takes the configured frequency as it is
NewGC(initialHZ, u) ==
  [hz |-> initialHZ,
   keyName |-> SpecKey,
   stats |-> [totalCollected |-> 0, numCycles |-> 0, effectiveCycles |-> 0],
   rdbPossiblyLoading |-> TRUE,
   noLockMode |-> FALSE,
   specUniqueId |-> u,
   numericGC |-> <<>>]

\* randomKey is the tag value of CollectTagIndex, 1 or 2; before RandomKey
\* has run it holds what rand() is going to prefer
NoPass ==
  [pc |-> "idle", status |-> SPEC_STATUS_OK, totalRemoved |-> 0, blockNum |-> 0,
   sctx |-> FALSE, randomKey |-> 1]

\* discarded has the NumericFieldGC objects the pass deleted for a fresh one;
\* iter has, for each call of NextGcNode, the tree and revision the
\* NumericFieldGC it iterates was built from and those of the tree just opened;
\* expect, appends and termAfter observe the term collector: the term's list
\* as a repair of the whole list at the start of the pass followed by the
\* appends of the yields would leave it (<<>> once something else than an
\* append happened in a yield of the term collector), the number of these
\* appends, and the list the term collector left (<<>> before it ended)
NoGobs ==
  [passes |-> 0, ret |-> TRUE, rep |-> {}, dropped |-> FALSE, resumed |-> FALSE,
   batchesAfter |-> 0, specAtResume |-> NullSpec, specAtEnd |-> NullSpec,
   expect |-> <<>>, appends |-> 0, termAfter |-> <<>>, iter |-> {},
   discarded |-> {}]

\* new RedisSearchCtx(ctx, name) and sctx->Refresh(name): TRUE when
\* sctx->spec is the spec the host has under name, FALSE when it is null
Resolve(h, name) == name = SpecKey /\ h.spec.exists

\* InvertedIndex::Repair on blocks from+1 .. to against the live ids docs
RECURSIVE RepairBlocks(_, _, _, _)
RepairBlocks(blocks, docs, from, to) ==
  IF from > to THEN blocks
  ELSE RepairBlocks([blocks EXCEPT ![from] = @ \cap docs], docs, from + 1, to)

\* the ids blocks from+1 .. to hold
RECURSIVE BlocksIds(_, _, _)
BlocksIds(blocks, from, to) ==
  IF from > to THEN {} ELSE blocks[from] \cup BlocksIds(blocks, from + 1, to)

RepairResult(blocks, nb0, blockNum, last) ==
  CHOOSE res \in {(
      [blocks |-> nb,
       next |-> IF last >= Len(blocks) THEN 0 ELSE last,
       from |-> blockNum,
       kept |-> BlocksIds(nb, blockNum + 1, last),
       docsCollected |-> BlocksCard(blocks) - BlocksCard(nb),
       bytesCollected |-> BlocksCard(blocks) - BlocksCard(nb)]
    ) : nb \in {nb0}} : TRUE

RepairTo(blocks, docs, blockNum, last) ==
  RepairResult(blocks, RepairBlocks(blocks, docs, blockNum + 1, last), blockNum, last)

\* idx->Repair(docs, blockNum, params) with params.limit = limit: walks up to
\* limit blocks, drops the entries whose doc id is not live, and returns the
\* next block index, 0 when the list is done.  An entry counts one byte.
Repair(blocks, docs, blockNum, limit) ==
  RepairTo(blocks, docs, blockNum, Min(blockNum + limit, Len(blocks)))

\* the list with every entry of a document that is not live dropped
RepairAll(blocks, docs) == RepairBlocks(blocks, docs, 1, Len(blocks))

\* a doc table that still lists the deleted documents
RepairDocs_Stale(h) == h.spec.live \cup h.spec.deleted

\* &sctx->spec->docs as Repair reads it: the ids that are live
RepairDocs(h) == h.spec.live

\* GarbageCollector::updateStats; the size_t counters are kept as integers
\* without a width, a value below zero is one that has wrapped in the code
updateStats(w, recordsRemoved, bytesCollected) ==
  [w EXCEPT !.host.spec.stats.numRecords = @ - recordsRemoved,
            !.host.spec.stats.invertedSize = @ - bytesCollected,
            !.gc.stats.totalCollected = @ + bytesCollected]

PcEnd(kind) ==
  CASE kind = "term" -> "termEnd" [] kind = "num" -> "numEnd" [] OTHER -> "tagEnd"
PcYield(kind) ==
  CASE kind = "term" -> "termYield" [] kind = "num" -> "numYield" [] OTHER -> "tagYield"

\* what a batch leaves in the pass and in the observations: r is the result
\* of Repair, live0 the live ids when the batch began
BatchDone(w0, r0, kind, live0) ==
  CHOOSE res \in {(
      [w EXCEPT !.pass.totalRemoved = @ + r.docsCollected,
                !.pass.blockNum = r.next,
                !.pass.pc = IF r.next = 0 THEN PcEnd(kind) ELSE PcYield(kind),
                !.host.lock = IF r.next = 0 THEN @ ELSE "free",
                !.gobs.rep = @ \cup {[kind |-> kind, from |-> r.from, kept |-> r.kept,
                                       liveAt |-> live0, locked |-> w.host.lock = "gc"]},
                !.gobs.batchesAfter = IF w.gobs.dropped THEN @ + 1 ELSE @,
                !.gobs.termAfter = IF kind = "term" /\ r.next = 0 THEN <<r.blocks>> ELSE @]
    ) : w \in {w0}, r \in {r0}} : TRUE

\* the test `!sctx || sctx->spec->uniqueId != specUniqueId`: sctx itself is
\* never null, so a spec that is gone is dereferenced
SpecCheck(w, found) ==
  IF ~found THEN "crash"
  ELSE IF w.host.spec.uniqueId # w.gc.specUniqueId THEN "invalid"
  ELSE "ok"

Crashed(w) == [w EXCEPT !.pass.pc = "crashed"]
Thrown(w) == [w EXCEPT !.pass.pc = "thrown"]
Invalid(w, kind) ==
  [w EXCEPT !.pass.status = SPEC_STATUS_INVALID, !.pass.pc = PcEnd(kind)]
Ended(w, kind) == [w EXCEPT !.pass.pc = PcEnd(kind)]

\* the observations of a resumption after a yield
Resumed(w) ==
  [w EXCEPT !.host.lock = "gc",
            !.gobs.resumed = @ \/ w.gobs.dropped,
            !.gobs.specAtResume = IF w.gobs.dropped /\ ~w.gobs.resumed
                                  THEN w.host.spec ELSE @]

\* ---- CollectRandomTerm

\* one round of the do-while loop: Repair, updateStats, break or yield
TermBatchEnd(w, r) ==
  BatchDone([updateStats(w, r.docsCollected, r.bytesCollected)
               EXCEPT !.host.spec.term = r.blocks],
            r, "term", w.host.spec.live)

\* TermBatch with a block index that moves one block too far over a yield
TermBatch_SkipBlock(w) ==
  TermBatchEnd(w, Repair(w.host.spec.term, RepairDocs(w.host),
                         IF w.pass.blockNum > 0 THEN w.pass.blockNum + 1 ELSE 0,
                         gcScanSize))

TermBatch(w) ==
  TermBatchEnd(w, Repair(w.host.spec.term, RepairDocs(w.host), w.pass.blockNum, gcScanSize))

\* GetRandomTerm and Redis_OpenInvertedIndexEx: nothing when the term is gone
TermOpen(w0) ==
  CHOOSE res \in {(
      IF w.host.spec.term = <<>> THEN Ended(w, "term") ELSE TermBatch(w)
    ) : w \in {w0}} : TRUE

TermChecked(w0, chk0) ==
  CHOOSE res \in {(
      CASE chk = "crash" -> Crashed(w)
        [] chk = "invalid" -> Invalid(w, "term")
        [] OTHER -> TermOpen(w)
    ) : w \in {w0}, chk \in {chk0}} : TRUE

\* CollectRandomTerm from its start to its first yield or its end
CollectRandomTerm(w) ==
  TermChecked([w EXCEPT !.pass.blockNum = 0, !.pass.sctx = Resolve(w.host, w.gc.keyName)],
              SpecCheck(w, Resolve(w.host, w.gc.keyName)))

\* CollectRandomTerm from sctx->Refresh(keyName) to the next yield or the end
TermResume(w) ==
  TermChecked([w EXCEPT !.pass.sctx = Resolve(w.host, w.gc.keyName)],
              SpecCheck(w, Resolve(w.host, w.gc.keyName)))

\* ---- CollectNumericIndex

\* a NextGcNode that hands out the next node whether it owns a range or not
RECURSIVE NextGcNodeLoop_AnyNode(_, _, _, _)
NextGcNodeLoop_AnyNode(nodes, it, runFromStart, recreated) ==
  IF it < Len(nodes)
  THEN [node |-> it + 1, it |-> it + 1, recreated |-> recreated, thrown |-> FALSE]
  ELSE IF runFromStart
  THEN [node |-> 0, it |-> it, recreated |-> recreated, thrown |-> TRUE]
  ELSE NextGcNodeLoop_AnyNode(nodes, 0, TRUE, recreated + 1)

\* the for (;;) of NextGcNode with gcIterator having handed out `it` nodes:
\* node is the position of the node returned (0 when none is), recreated
\* counts the iterators that were made anew from the root
RECURSIVE NextGcNodeLoop(_, _, _, _)
NextGcNodeLoop(nodes, it, runFromStart, recreated) ==
  IF it < Len(nodes)
  THEN (IF nodes[it + 1]
        THEN [node |-> it + 1, it |-> it + 1, recreated |-> recreated, thrown |-> FALSE]
        ELSE NextGcNodeLoop(nodes, it + 1, runFromStart, recreated))
  ELSE IF runFromStart
  THEN [node |-> 0, it |-> it, recreated |-> recreated, thrown |-> TRUE]
  ELSE NextGcNodeLoop(nodes, 0, TRUE, recreated + 1)

\* what a call of NextGcNode with the result r leaves
NextGcNodeEnd(w0, r0) ==
  CHOOSE res \in {(
      [w EXCEPT !.gc.numericGC[1].it = r.it,
                !.pass.pc = IF r.thrown THEN "thrown" ELSE @,
                !.gobs.iter = @ \cup {[rt |-> w.gc.numericGC[1].rt,
                                        revisionId |-> w.gc.numericGC[1].revisionId,
                                        opened |-> w.host.spec.num.ptr,
                                        openedRevisionId |-> w.host.spec.num.revisionId,
                                        from |-> w.gc.numericGC[1].it,
                                        node |-> r.node,
                                        recreated |-> r.recreated]}]
    ) : w \in {w0}, r \in {r0}} : TRUE

\* NextGcNode(numericGc) for the NumericFieldGC of the numeric field
NextGcNode(w) ==
  NextGcNodeEnd(w, NextGcNodeLoop(w.host.spec.num.nodes, w.gc.numericGC[1].it, FALSE, 0))

NumBatchEnd(w, r) ==
  BatchDone([updateStats(w, r.docsCollected, r.bytesCollected)
               EXCEPT !.host.spec.num.entries = r.blocks,
                      !.host.spec.num.numEntries = @ - r.docsCollected],
            r, "num", w.host.spec.live)

\* one round of the loop on the entries of nextNode->range; not reached when
\* NextGcNode has thrown
NumBatch(w0) ==
  CHOOSE res \in {(
      IF w.pass.pc = "thrown" THEN w
      ELSE NumBatchEnd(w, Repair(w.host.spec.num.entries, RepairDocs(w.host), w.pass.blockNum,
                                 gcScanSize))
    ) : w \in {w0}} : TRUE

\* NumRevision that compares the revision only
NumRevision_RevisionOnly(w) ==
  IF w.gc.numericGC[1].revisionId # w.host.spec.num.revisionId
  THEN NumBatch(NextGcNode([w EXCEPT !.gc.numericGC[1] =
                                       NewNumericFieldGC(w.host.spec.num)]))
  ELSE NumBatch(NextGcNode(w))

\* the check of the cached NumericFieldGC against the tree just opened; when
\* the index did not open (rt is NULL) the pointers differ and the
\* constructor of the fresh NumericFieldGC reads rt->revisionId
NumRevision(w) ==
  IF w.host.spec.num.ptr = 0 THEN Crashed(w)
  ELSE IF w.gc.numericGC[1].rt # w.host.spec.num.ptr
     \/ w.gc.numericGC[1].revisionId # w.host.spec.num.revisionId
  THEN IF w.gc.numericGC[1].rt = w.host.spec.num.ptr
          /\ w.gc.numericGC[1].revisionId >= w.host.spec.num.revisionId
       THEN Thrown(w)
       ELSE NumBatch(NextGcNode([w EXCEPT !.gc.numericGC[1] =
                                            NewNumericFieldGC(w.host.spec.num),
                                          !.gobs.discarded = @ \cup {w.gc.numericGC[1]}]))
  ELSE NumBatch(NextGcNode(w))

\* the rebuild of numericGC when the count of numeric fields (one) differs;
\* "numeric index failed to open" is thrown when OpenNumericIndex gives NULL
NumArray(w0) ==
  CHOOSE res \in {(
      IF 1 # Len(w.gc.numericGC)
      THEN IF 1 <= Len(w.gc.numericGC) THEN Thrown(w)
           ELSE IF w.host.spec.num.ptr = 0 THEN Thrown(w)
           ELSE NumRevision([w EXCEPT !.gc.numericGC = <<NewNumericFieldGC(w.host.spec.num)>>])
      ELSE NumRevision(w)
    ) : w \in {w0}} : TRUE

NumChecked(w0, chk0) ==
  CHOOSE res \in {(
      CASE chk = "crash" -> Crashed(w)
        [] chk = "invalid" -> Invalid(w, "num")
        [] OTHER -> NumArray(w)
    ) : w \in {w0}, chk \in {chk0}} : TRUE

\* CollectNumericIndex from its start to its first yield or its end
CollectNumericIndex(w) ==
  NumChecked([w EXCEPT !.pass.blockNum = 0, !.pass.sctx = Resolve(w.host, w.gc.keyName)],
             SpecCheck(w, Resolve(w.host, w.gc.keyName)))

NumResumeChecked(w0, chk0) ==
  CHOOSE res \in {(
      CASE chk = "crash" -> Crashed(w)
        [] chk = "invalid" -> Invalid(w, "num")
        [] OTHER -> IF w.gc.numericGC[1].revisionId # w.host.spec.num.revisionId
                    THEN Ended(w, "num")
                    ELSE NumBatch(w)
    ) : w \in {w0}, chk \in {chk0}} : TRUE

\* CollectNumericIndex from sctx->Refresh(keyName) on: keyName is the local
\* of line 274, the formatted key of the numeric field
NumResume(w) ==
  NumResumeChecked([w EXCEPT !.pass.sctx = Resolve(w.host, NumericKey)],
                   SpecCheck(w, Resolve(w.host, NumericKey)))

\* ---- CollectTagIndex

\* the inverted index of tag value v, <<>> when the value is not in the map
TagValue(sp, v) == IF v = 2 THEN sp.tag2 ELSE sp.tag

\* TrieMap::RandomKey: one of the values the tag index has, 0 when it has none
RandomKey(w) ==
  IF TagValue(w.host.spec, w.pass.randomKey) # <<>> THEN w.pass.randomKey
  ELSE IF TagValue(w.host.spec, 3 - w.pass.randomKey) # <<>> THEN 3 - w.pass.randomKey
  ELSE 0

TagBatchEnd(w, r) ==
  BatchDone(IF w.pass.randomKey = 2
            THEN [updateStats(w, r.docsCollected, r.bytesCollected)
                    EXCEPT !.host.spec.tag2 = r.blocks]
            ELSE [updateStats(w, r.docsCollected, r.bytesCollected)
                    EXCEPT !.host.spec.tag = r.blocks],
            r, "tag", w.host.spec.live)

TagBatch(w) ==
  TagBatchEnd(w, Repair(TagValue(w.host.spec, w.pass.randomKey), RepairDocs(w.host),
                        w.pass.blockNum, gcScanSize))

\* TagIndex::Open and RandomKey (blockNum is 0) or Find(randomKey) (after a
\* yield): nothing when no value, or the value, is gone
TagOpen(w0) ==
  CHOOSE res \in {(
      IF w.pass.blockNum = 0
      THEN (IF RandomKey(w) = 0 THEN Ended(w, "tag")
            ELSE TagBatch([w EXCEPT !.pass.randomKey = RandomKey(w)]))
      ELSE (IF TagValue(w.host.spec, w.pass.randomKey) = <<>> THEN Ended(w, "tag")
            ELSE TagBatch(w))
    ) : w \in {w0}} : TRUE

TagChecked(w0, chk0) ==
  CHOOSE res \in {(
      CASE chk = "crash" -> Crashed(w)
        [] chk = "invalid" -> Invalid(w, "tag")
        [] OTHER -> TagOpen(w)
    ) : w \in {w0}, chk \in {chk0}} : TRUE

\* CollectTagIndex from its start to its first yield or its end
CollectTagIndex(w) ==
  TagChecked([w EXCEPT !.pass.blockNum = 0, !.pass.sctx = Resolve(w.host, w.gc.keyName)],
             SpecCheck(w, Resolve(w.host, w.gc.keyName)))

\* CollectTagIndex from sctx->Refresh(keyName) on: keyName is the local of
\* line 192, the formatted key of the tag field
TagResume(w) ==
  TagChecked([w EXCEPT !.pass.sctx = Resolve(w.host, TagKey)],
             SpecCheck(w, Resolve(w.host, TagKey)))

\* ---- PeriodicCallback

\* PassEnd without the decay of hz after a pass that removed nothing
PassEnd_Flat(w) ==
  [w EXCEPT !.gc.stats.numCycles = @ + 1,
            !.gc.stats.effectiveCycles = @ + (IF w.pass.totalRemoved > 0 THEN 1 ELSE 0),
            !.gc.hz = IF w.pass.totalRemoved > 0
                      THEN Min((@ * 12) \div 10, GC_MAX_HZ)
                      ELSE Max(@, GC_MIN_HZ),
            !.host.lock = "free",
            !.pass.pc = "idle",
            !.gobs.passes = @ + 1,
            !.gobs.ret = (w.pass.status = SPEC_STATUS_OK),
            !.gobs.specAtEnd = w.host.spec]

\* the end of PeriodicCallback: cycle counters, the new hz, unlock, return
PassEnd(w) ==
  [w EXCEPT !.gc.stats.numCycles = @ + 1,
            !.gc.stats.effectiveCycles = @ + (IF w.pass.totalRemoved > 0 THEN 1 ELSE 0),
            !.gc.hz = IF w.pass.totalRemoved > 0
                      THEN Min((@ * 12) \div 10, GC_MAX_HZ)
                      ELSE Max((@ * 99) \div 100, GC_MIN_HZ),
            !.host.lock = "free",
            !.pass.pc = "idle",
            !.gobs.passes = @ + 1,
            !.gobs.ret = (w.pass.status = SPEC_STATUS_OK),
            !.gobs.specAtEnd = w.host.spec]

\* the three collectors one after the other, up to a yield or the return
RECURSIVE Continue(_)
Continue(w0) ==
  CHOOSE res \in {(
      CASE w.pass.pc = "termEnd" -> Continue(CollectNumericIndex(w))
        [] w.pass.pc = "numEnd" -> Continue(CollectTagIndex(w))
        [] w.pass.pc = "tagEnd" -> PassEnd(w)
        [] OTHER -> w
    ) : w \in {w0}} : TRUE

\* a skip that is counted as a cycle and moves hz
PassSkipped_Counted(w) == PassEnd(w)

\* the skip of a pass while the host loads a snapshot
PassSkipped(w) ==
  [w EXCEPT !.host.lock = "free", !.pass.pc = "idle",
            !.gobs.passes = @ + 1, !.gobs.ret = TRUE, !.gobs.specAtEnd = w.host.spec]

\* a PeriodicCallback that asks the host about loading on every call
PeriodicCallback_AlwaysAsks(w) ==
  IF w.host.loading
  THEN PassSkipped(w)
  ELSE Continue(CollectRandomTerm([w EXCEPT !.gc.rdbPossiblyLoading = FALSE]))

\* GarbageCollector::PeriodicCallback from the lock to a yield or the return
PeriodicCallback(w) ==
  IF w.gc.rdbPossiblyLoading /\ w.host.loading
  THEN PassSkipped(w)
  ELSE Continue(CollectRandomTerm([w EXCEPT !.gc.rdbPossiblyLoading = FALSE]))

\* GarbageCollector::OnDelete
OnDelete(g) == [g EXCEPT !.hz = Min((@ * 15) \div 10, GC_MAX_HZ)]

-----------------------------------------------------------------------------
(* The ingest as a state machine *)

Scores == {5}

NoObs ==
  [cb |-> 0, fr |-> 0, uaf |-> FALSE, late |-> FALSE, ati |-> 0, handed |-> 0,
   offloaded |-> FALSE, partial |-> FALSE, path |-> "none", input |-> <<>>,
   setdocOk |-> TRUE, mergeOk |-> TRUE, mergeSetOk |-> TRUE, preFail |-> FALSE,
   flags0 |-> {}, sv0 |-> NullSV,
   dt0 |-> EmptyDocTable]

IngestInit ==
  /\ pc = "idle"
  /\ aCtx = NewCtx
  /\ docTable \in {EmptyDocTable, IndexedDocTable}
  /\ index = EmptyIndex
  /\ obs = [NoObs EXCEPT !.dt0 = docTable]
  /\ host = [spec |-> NullSpec, loading |-> FALSE, lock |-> "free", nextUid |-> 1,
            reloads |-> 0]
  /\ gc = NewGC(InitialHz, 0)
  /\ pass = NoPass
  /\ gobs = NoGobs

\* new AddDocumentCtx(sp, b, status): SetDocument on the fresh context; a
\* failure is thrown and no context exists.  The caller marks the context
\* NOBLOCK when the client cannot be blocked.
Construct(d, sc, pl, nb) ==
  /\ pc = "idle"
  /\ \E r \in {SetDocument(NewCtx, [fields |-> d, score |-> sc, payload |-> pl, docId |-> 0])} :
        /\ aCtx' = IF r.ok
                   THEN [r.c EXCEPT !.stateFlags = IF nb THEN @ \cup {NOBLOCK} ELSE @,
                                    !.doc.docId = 0]
                   ELSE r.c
        /\ pc' = IF r.ok THEN "ready" ELSE "rejected"
        /\ obs' = [obs EXCEPT !.input = d, !.setdocOk = r.ok]
  /\ UNCHANGED <<docTable, index>>
  /\ UNCHANGED gvars

\* AddDocumentCtx::Finish after doReplyFinish or UnblockClient
FinishPc(c) == IF NOBLOCK \in c.stateFlags THEN "done" ELSE "unblocking"
FinishCalls(c) == IF NOBLOCK \in c.stateFlags THEN 1 ELSE 0

\* Document::AddToIndexes(aCtx) run to its return, from Submit or a worker
RunAddToIndexes(c, o) ==
  \E r \in {AddToIndexes(c)} :
  /\ aCtx' = r.c
  /\ pc' = CASE r.exit = "indexer" -> "indexq"
             [] r.exit = "cleanup" -> FinishPc(r.c)
             [] OTHER -> "crashed"
  /\ obs' = [o EXCEPT !.ati = @ + 1,
                      !.sv0 = c.sv,
                      !.preFail = HasError(r.c.status),
                      !.cb = @ + (IF r.exit = "cleanup" THEN FinishCalls(r.c) ELSE 0),
                      !.fr = @ + (IF r.exit = "cleanup" THEN FinishCalls(r.c) ELSE 0)]
  /\ UNCHANGED <<docTable, index>>

\* Submit from "take ownership of the strings" on
SubmitFull(c, o) ==
  IF Offload(c)
  THEN /\ pc' = "pool"
       /\ aCtx' = c
       /\ obs' = [o EXCEPT !.offloaded = TRUE]
       /\ UNCHANGED <<docTable, index>>
  ELSE RunAddToIndexes(c, o)

\* handlePartialUpdate, metadata-only branch
SubmitNoIndex(ub, g) ==
  \E u \in {UpdateNoIndex(aCtx, docTable, ub, g)} :
  /\ aCtx' = u.c
  /\ docTable' = [docTable EXCEPT !.md = u.md]
  /\ pc' = CASE u.exit = "return" -> "done"
             [] u.exit = "throw" -> "thrown"
             [] OTHER -> "crashed"
  /\ obs' = [obs EXCEPT !.partial = TRUE, !.path = "noindex", !.flags0 = aCtx.stateFlags,
                        !.cb = @ + u.cb, !.fr = @ + u.fr, !.uaf = u.uaf, !.late = u.late]
  /\ UNCHANGED index

\* handlePartialUpdate, ReplaceMerge branch, and the rest of Submit after it
SubmitMerge(ld) ==
  \E m \in {ReplaceMerge(aCtx, ld)} :
  \E o \in {[obs EXCEPT !.partial = TRUE, !.path = "merge", !.mergeOk = ld.ok,
                        !.mergeSetOk = m.setOk, !.flags0 = aCtx.stateFlags,
                        !.cb = @ + m.cb, !.fr = @ + m.fr]} :
     IF m.returned
     THEN /\ pc' = "done"
          /\ aCtx' = m.c
          /\ obs' = o
          /\ UNCHANGED <<docTable, index>>
     ELSE SubmitFull(m.c, o)

\* a partial update that always reloads and reindexes
handlePartialUpdate_AlwaysMerge(c) == "ReplaceMerge"

\* AddDocumentCtx::handlePartialUpdate: which of the two updates runs
handlePartialUpdate(c) ==
  IF INDEXABLES \in c.stateFlags THEN "ReplaceMerge" ELSE "UpdateNoIndex"

\* AddDocumentCtx::Submit(sctx, options)
Submit(partial, ld, ub, g) ==
  /\ pc = "ready"
  /\ IF partial
     THEN IF handlePartialUpdate(aCtx) = "ReplaceMerge"
          THEN ub = "intact" /\ g = 0 /\ SubmitMerge(ld)
          ELSE ~ld.ok /\ SubmitNoIndex(ub, g)
     ELSE /\ ~ld.ok /\ ub = "intact" /\ g = 0
          /\ SubmitFull(aCtx, [obs EXCEPT !.path = "full", !.flags0 = aCtx.stateFlags])
  /\ UNCHANGED gvars

\* threadCallback on the worker pool
ThreadCallback ==
  /\ pc = "pool"
  /\ RunAddToIndexes(aCtx, obs)
  /\ UNCHANGED gvars

\* the indexer thread takes the context, indexes it and calls Finish
IndexerProcess(sz) ==
  /\ pc = "indexq"
  /\ \E r \in {IndexerAdd(aCtx, docTable, index, sz)} :
     /\ aCtx' = r.c
     /\ docTable' = r.dt
     /\ index' = r.ix
     /\ pc' = FinishPc(r.c)
     /\ obs' = [obs EXCEPT !.handed = @ + 1,
                           !.cb = @ + FinishCalls(r.c),
                           !.fr = @ + FinishCalls(r.c)]
  /\ UNCHANGED gvars

\* replyCallback on the host's unblock path: doReplyFinish
ReplyCallback ==
  /\ pc = "unblocking"
  /\ pc' = "done"
  /\ obs' = [obs EXCEPT !.cb = @ + 1, !.fr = @ + 1]
  /\ UNCHANGED <<aCtx, docTable, index>>
  /\ UNCHANGED gvars

IngestNext ==
  \/ \E d \in Docs, sc \in Scores, pl \in BOOLEAN, nb \in BOOLEAN : Construct(d, sc, pl, nb)
  \/ \E partial \in BOOLEAN, ld \in Reloads, ub \in UbOutcomes, g \in Garbage :
       Submit(partial, ld, ub, g)
  \/ ThreadCallback
  \/ \E sz \in 0..MaxGrowth : IndexerProcess(sz)
  \/ ReplyCallback

-----------------------------------------------------------------------------
(* The garbage collector as a state machine *)

World == [host |-> host, gc |-> gc, pass |-> pass, gobs |-> gobs]

SetWorld(w) ==
  /\ host' = w.host
  /\ gc' = w.gc
  /\ pass' = w.pass
  /\ gobs' = w.gobs
  /\ UNCHANGED ivars

Yields == {"termYield", "numYield", "tagYield"}

\* the host lets writers run between passes and while a pass yields
WritersRun == pass.pc = "idle" \/ pass.pc \in Yields

GcInit ==
  /\ \E live \in SUBSET (1..MaxDocs), ld \in BOOLEAN :
       host = [spec |-> IndexedSpec(live), loading |-> ld, lock |-> "free", nextUid |-> 2,
               reloads |-> 0]
  /\ \E u \in 1..MaxUniqueId : gc = NewGC(InitialHz, u)
  /\ pass = NoPass
  /\ gobs = NoGobs
  /\ pc = "idle"
  /\ aCtx = NewCtx
  /\ docTable = EmptyDocTable
  /\ index = EmptyIndex
  /\ obs = NoObs

\* the collector of an index in which nothing is deleted yet, constructed with
\* any of the frequencies a user may configure; specUniqueId happens to hold
\* the id of the spec
HzInit ==
  /\ \E ld \in BOOLEAN :
       host = [spec |-> IndexedSpec(1..MaxDocs), loading |-> ld, lock |-> "free",
               nextUid |-> 2, reloads |-> 0]
  /\ \E initialHZ \in InitialHzs : gc = NewGC(initialHZ, 1)
  /\ pass = NoPass
  /\ gobs = NoGobs
  /\ pc = "idle"
  /\ aCtx = NewCtx
  /\ docTable = EmptyDocTable
  /\ index = EmptyIndex
  /\ obs = NoObs

\* the collector of an index whose documents were ingested with two values
\* in their tag field: tagIndexer counted one record for the field of each
\* document, and TagIndex::Index put the document into the inverted index of
\* either value; the documents are deleted since, and specUniqueId holds the
\* id of the spec
StatsInit ==
  /\ \E ld \in BOOLEAN :
       host = [spec |-> [IndexedSpec({}) EXCEPT !.tag2 = <<1..MaxDocs>>],
               loading |-> ld, lock |-> "free", nextUid |-> 2, reloads |-> 0]
  /\ gc = NewGC(InitialHz, 1)
  /\ pass = NoPass
  /\ gobs = NoGobs
  /\ pc = "idle"
  /\ aCtx = NewCtx
  /\ docTable = EmptyDocTable
  /\ index = EmptyIndex
  /\ obs = NoObs

\* the collector of an index with one document deleted, specUniqueId holding
\* the id of the spec, on a host that is or is not loading a snapshot
LoadInit ==
  /\ \E ld \in BOOLEAN :
       host = [spec |-> IndexedSpec(1..(MaxDocs - 1)), loading |-> ld, lock |-> "free",
               nextUid |-> 2, reloads |-> 0]
  /\ gc = NewGC(InitialHz, 1)
  /\ pass = NoPass
  /\ gobs = NoGobs
  /\ pc = "idle"
  /\ aCtx = NewCtx
  /\ docTable = EmptyDocTable
  /\ index = EmptyIndex
  /\ obs = NoObs

\* the timer thread runs PeriodicCallback
GcPeriodicCallback ==
  /\ pass.pc = "idle"
  /\ gobs.passes < MaxPasses
  /\ \E rk \in (IF host.spec.tag2 = <<>> THEN {1} ELSE {1, 2}) :
     \E w \in {PeriodicCallback([host |-> [host EXCEPT !.lock = "gc"],
                                 gc |-> gc,
                                 pass |-> [NoPass EXCEPT !.randomKey = rk],
                                 gobs |-> [NoGobs EXCEPT
                                             !.passes = gobs.passes,
                                             !.expect = <<RepairAll(host.spec.term,
                                                                    host.spec.live)>>]])} :
       SetWorld(w)

GcTermResume ==
  /\ pass.pc = "termYield"
  /\ \E w \in {Continue(TermResume(Resumed(World)))} : SetWorld(w)

GcNumericResume ==
  /\ pass.pc = "numYield"
  /\ \E w \in {Continue(NumResume(Resumed(World)))} : SetWorld(w)

GcTagResume ==
  /\ pass.pc = "tagYield"
  /\ \E w \in {Continue(TagResume(Resumed(World)))} : SetWorld(w)

\* a client deletes document d: the table marks it deleted, the posting
\* lists keep its entries, and the collector is told
DeleteDocument(d) ==
  /\ WritersRun
  /\ host.spec.exists
  /\ d \in host.spec.live
  /\ host' = [host EXCEPT !.spec.live = @ \ {d}, !.spec.deleted = @ \cup {d}]
  /\ gc' = OnDelete(gc)
  /\ gobs' = [gobs EXCEPT !.expect = IF pass.pc = "termYield" THEN <<>> ELSE @]
  /\ UNCHANGED pass
  /\ UNCHANGED ivars

\* a client adds a document: the next id, one new block in each list; a
\* numeric index that does not open fails the ingest
AddDocument ==
  /\ WritersRun
  /\ host.spec.exists
  /\ host.spec.num.ptr # 0
  /\ host.spec.maxId < MaxDocs + MaxNewDocs
  /\ host' = [host EXCEPT !.spec.maxId = @ + 1,
                          !.spec.live = @ \cup {host.spec.maxId + 1},
                          !.spec.term = Append(@, {host.spec.maxId + 1}),
                          !.spec.num.entries = Append(@, {host.spec.maxId + 1}),
                          !.spec.num.numEntries = @ + 1,
                          !.spec.tag = Append(@, {host.spec.maxId + 1}),
                          !.spec.stats.numRecords = @ + 3,
                          !.spec.stats.invertedSize = @ + 3]
  /\ gobs' = IF pass.pc = "termYield" /\ gobs.expect # <<>>
             THEN [gobs EXCEPT !.expect = <<Append(@[1], {host.spec.maxId + 1})>>,
                               !.appends = @ + 1]
             ELSE gobs
  /\ UNCHANGED <<gc, pass>>
  /\ UNCHANGED ivars

\* a client drops the spec
DropSpec ==
  /\ WritersRun
  /\ host.spec.exists
  /\ host' = [host EXCEPT !.spec = NullSpec]
  /\ gobs' = [gobs EXCEPT !.dropped = @ \/ pass.pc \in Yields,
                          !.expect = IF pass.pc = "termYield" THEN <<>> ELSE @]
  /\ UNCHANGED <<gc, pass>>
  /\ UNCHANGED ivars

\* a client creates the spec again, with the next uniqueId
CreateSpec ==
  /\ WritersRun
  /\ ~host.spec.exists
  /\ host.nextUid <= MaxUniqueId
  /\ host' = [host EXCEPT !.spec = NewSpec(host.nextUid), !.nextUid = @ + 1]
  /\ UNCHANGED <<gc, pass, gobs>>
  /\ UNCHANGED ivars

\* the numeric range tree changes shape (a new revisionId), or the key of
\* the numeric index is written anew: another tree with the same entries,
\* its revisionId at the start; MaxRevision changes to a tree
NumericTreeChange(replaced) ==
  /\ WritersRun
  /\ host.spec.exists
  /\ host.spec.num.ptr \in 1..MaxUniqueId
  /\ host.spec.num.revisionId < MaxRevision
  /\ host' = IF replaced
             THEN [host EXCEPT !.spec.num.ptr = @ + MaxUniqueId,
                               !.spec.num.revisionId = 0]
             ELSE [host EXCEPT !.spec.num.revisionId = @ + 1]
  /\ UNCHANGED <<gc, pass, gobs>>
  /\ UNCHANGED ivars

\* a client stores a value of another type under the key of the numeric
\* index: the tree is gone and OpenNumericIndex returns NULL from then on
NumericKeyOverwritten ==
  /\ WritersRun
  /\ host.spec.exists
  /\ host.spec.num.ptr # 0
  /\ host' = [host EXCEPT !.spec.num = NoTree]
  /\ UNCHANGED <<gc, pass, gobs>>
  /\ UNCHANGED ivars

\* the host finishes loading its snapshot
LoadingDone ==
  /\ WritersRun
  /\ host.loading
  /\ host' = [host EXCEPT !.loading = FALSE]
  /\ UNCHANGED <<gc, pass, gobs>>
  /\ UNCHANGED ivars

\* the host starts to load a snapshot again (a reload, a resynchronisation)
LoadingStarts ==
  /\ WritersRun
  /\ ~host.loading
  /\ host.reloads < MaxReloads
  /\ host' = [host EXCEPT !.loading = TRUE, !.reloads = @ + 1]
  /\ UNCHANGED <<gc, pass, gobs>>
  /\ UNCHANGED ivars

GcNext ==
  \/ GcPeriodicCallback
  \/ GcTermResume
  \/ GcNumericResume
  \/ GcTagResume
  \/ \E d \in 1..(MaxDocs + MaxNewDocs) : DeleteDocument(d)
  \/ AddDocument
  \/ DropSpec
  \/ CreateSpec
  \/ \E replaced \in BOOLEAN : NumericTreeChange(replaced)
  \/ NumericKeyOverwritten
  \/ LoadingDone

-----------------------------------------------------------------------------
(* Specifications *)

SpecIngest == IngestInit /\ [][IngestNext]_vars

SpecGC == GcInit /\ [][GcNext]_vars

SpecHz == HzInit /\ [][GcNext]_vars

SpecStats == StatsInit /\ [][GcNext]_vars

\* the collector of an index whose documents are all deleted, under the
\* scheduling of the timer thread: a collector that has yielded gets the lock
\* of the host again and resumes
LiveInit ==
  /\ host = [spec |-> IndexedSpec({}), loading |-> FALSE, lock |-> "free",
             nextUid |-> 2, reloads |-> 0]
  /\ gc = NewGC(InitialHz, 1)
  /\ pass = NoPass
  /\ gobs = NoGobs
  /\ pc = "idle"
  /\ aCtx = NewCtx
  /\ docTable = EmptyDocTable
  /\ index = EmptyIndex
  /\ obs = NoObs

\* the collector, writers that append, and the replacement of the index
LiveNext ==
  \/ GcPeriodicCallback
  \/ GcTermResume
  \/ GcNumericResume
  \/ GcTagResume
  \/ AddDocument
  \/ DropSpec
  \/ CreateSpec

SpecLive ==
  /\ LiveInit
  /\ [][LiveNext]_vars
  /\ WF_vars(GcTermResume)
  /\ WF_vars(GcNumericResume)
  /\ WF_vars(GcTagResume)

\* NextGcNode alone: a numeric tree of up to MaxNodes nodes, each with or
\* without a range, and the NumericFieldGC of the tree with its gcIterator
\* fresh or standing at the node an earlier call returned
NodesInit ==
  /\ \E nodes \in UNION {[1..k -> BOOLEAN] : k \in 1..MaxNodes} :
     \E it \in {0} \cup {j \in 1..Len(nodes) : nodes[j]} :
       /\ host = [spec |-> [IndexedSpec({}) EXCEPT !.num.nodes = nodes],
                  loading |-> FALSE, lock |-> "free", nextUid |-> 2, reloads |-> 0]
       /\ gc = [NewGC(InitialHz, 1) EXCEPT
                  !.numericGC = <<[NewNumericFieldGC(IndexedSpec({}).num) EXCEPT !.it = it]>>]
  /\ pass = NoPass
  /\ gobs = NoGobs
  /\ pc = "idle"
  /\ aCtx = NewCtx
  /\ docTable = EmptyDocTable
  /\ index = EmptyIndex
  /\ obs = NoObs

\* nextNode = NextGcNode(num_gc)
GcNextGcNode ==
  /\ pass.pc = "idle"
  /\ SetWorld(NextGcNode(World))

NodesNext == GcNextGcNode

SpecNodes == NodesInit /\ [][NodesNext]_vars

\* the collector on a host that may start to load a snapshot again
LoadNext == GcNext \/ LoadingStarts

SpecLoad == LoadInit /\ [][LoadNext]_vars

-----------------------------------------------------------------------------
(* Properties of the ingest *)

\* a document field that has text and names a schema field
Resolves(f) == ~f.text.null /\ ~IsNullSpec(GetField(f.name))

\* positions j of d whose FieldSpec a resolved field before j already used
DupPositions(d) ==
  {j \in 1..Len(d) :
     /\ Resolves(d[j])
     /\ \E i \in 1..(j - 1) :
          Resolves(d[i]) /\ GetField(d[i].name).index = GetField(d[j].name).index}

\* positions of d whose caller-specified indexAs has a bit outside fs.types
BadTypePositions(d) ==
  {i \in 1..Len(d) :
     /\ Resolves(d[i])
     /\ d[i].indexAs # {}
     /\ ~(d[i].indexAs \subseteq GetField(d[i].name).types)}

MinOf(S) == CHOOSE x \in S : \A y \in S : x <= y

Constructed == pc \in {"ready", "rejected"}

Terminal == pc \in {"done", "crashed", "thrown", "rejected"}

\* C1: on every path of submit the completion callback is invoked exactly
\* once: never more than once, and once by the time the ingest is done.
C1_CallbackExactlyOnce ==
  /\ obs.cb <= 1
  /\ (pc = "done" => obs.cb = 1)

\* C2: every AddDocumentCtx is destroyed exactly once and never accessed
\* after its destruction; updateNoIndex takes no further step on a context
\* that destroyed itself on an error path.
C2_DestroyedExactlyOnce ==
  /\ obs.fr <= 1
  /\ ~obs.uaf
  /\ (pc = "done" => obs.fr = 1)

\* C3: an ingest that failed validation (SetDocument at construction or in
\* ReplaceMerge) or parsing (numeric or geo preprocessor) is never handed to
\* the indexer: no doc id is assigned, and the document table, every index
\* and the stats stay as they were.
C3_FailedIngestNotIndexed ==
  (pc = "rejected" \/ ~obs.setdocOk \/ ~obs.mergeSetOk \/ obs.preFail)
    => /\ obs.handed = 0
       /\ pc # "indexq"
       /\ aCtx.doc.docId = 0
       /\ docTable = obs.dt0
       /\ index = EmptyIndex

\* C3 witness: a numeric parse failure was reported and the ingest is done
C3_Witness ==
  /\ pc = "done"
  /\ obs.preFail
  /\ obs.path = "full"
  /\ \E i \in 1..Len(aCtx.doc.fields) :
       NUMERIC \in aCtx.doc.fields[i].indexAs /\ ~StringToDouble(aCtx.doc.fields[i].text).ok

\* C4 as stated: SetDocument succeeds only if no two resolved fields share a
\* FieldSpec.index; if two do it fails with DUPFIELD and the message
\* "Tried to insert `<name>` twice".
C4_Original ==
  Constructed =>
    /\ (pc = "ready" => DupPositions(obs.input) = {})
    /\ (DupPositions(obs.input) # {} =>
          /\ pc = "rejected"
          /\ aCtx.status.code = "DUPFIELD"
          /\ aCtx.status.msg =
               <<"Tried to insert twice",
                 GetField(obs.input[MinOf(DupPositions(obs.input))].name).name>>)

\* C4 amended: SetDocument succeeds only if no two resolved fields share a
\* FieldSpec.index; if two do it fails, and it fails with DUPFIELD and the
\* message naming the repeated field unless a field before the first
\* repetition has a caller-specified indexAs outside its fs.types (that
\* field fails first, with UNSUPPTYPE).
C4_AtMostOnceField ==
  Constructed =>
    /\ (pc = "ready" => DupPositions(obs.input) = {})
    /\ (DupPositions(obs.input) # {} =>
          /\ pc = "rejected"
          /\ IF \E b \in BadTypePositions(obs.input) : b < MinOf(DupPositions(obs.input))
             THEN aCtx.status.code = "UNSUPPTYPE"
             ELSE /\ aCtx.status.code = "DUPFIELD"
                  /\ aCtx.status.msg =
                       <<"Tried to insert twice",
                         GetField(obs.input[MinOf(DupPositions(obs.input))].name).name>>)

\* C4 witness: a document with a repeated field was rejected with DUPFIELD
C4_Witness ==
  /\ pc = "rejected"
  /\ DupPositions(obs.input) # {}
  /\ aCtx.status.code = "DUPFIELD"

\* every resolved field of the context's document conforms to its FieldSpec
TypesConform(d) ==
  \A i \in 1..Len(d) :
    Resolves(d[i]) => d[i].indexAs # {} /\ d[i].indexAs \subseteq GetField(d[i].name).types

\* fields whose indexAs the caller left unspecified got exactly fs.types
DefaultsFilled(din, dout) ==
  /\ Len(dout) = Len(din)
  /\ \A i \in 1..Len(din) :
       (Resolves(din[i]) /\ din[i].indexAs = {}) => dout[i].indexAs = GetField(din[i].name).types

\* C5 as stated: after a successful SetDocument every resolved field has
\* indexAs within fs.types (exactly fs.types when unspecified); a field whose
\* caller-specified indexAs has a bit outside fs.types makes SetDocument fail
\* with UNSUPPTYPE.
C5_Original ==
  Constructed =>
    /\ (pc = "ready" =>
          TypesConform(aCtx.doc.fields) /\ DefaultsFilled(obs.input, aCtx.doc.fields))
    /\ (BadTypePositions(obs.input) # {} =>
          pc = "rejected" /\ aCtx.status.code = "UNSUPPTYPE")

\* C5 amended: after a successful SetDocument every resolved field has
\* indexAs within fs.types (exactly fs.types when unspecified); a resolved
\* field whose caller-specified indexAs has a bit outside fs.types makes
\* SetDocument fail, with UNSUPPTYPE unless that field or a field before it
\* repeats a FieldSpec already seen (the repetition fails first, with
\* DUPFIELD).
C5_TypeConformance ==
  /\ (pc \notin {"idle", "rejected"} /\ obs.mergeSetOk) => TypesConform(aCtx.doc.fields)
  /\ Constructed =>
       /\ (pc = "ready" => DefaultsFilled(obs.input, aCtx.doc.fields))
       /\ (BadTypePositions(obs.input) # {} =>
             /\ pc = "rejected"
             /\ IF \E j \in DupPositions(obs.input) : j <= MinOf(BadTypePositions(obs.input))
                THEN aCtx.status.code = "DUPFIELD"
                ELSE aCtx.status.code = "UNSUPPTYPE")

\* C5 witness: a field asked to be indexed as a type its FieldSpec lacks was
\* rejected with UNSUPPTYPE
C5_Witness ==
  /\ pc = "rejected"
  /\ BadTypePositions(obs.input) # {}
  /\ aCtx.status.code = "UNSUPPTYPE"

\* positions of d whose numeric or geo text the preprocessors cannot parse
ParseFailPositions(d) ==
  {i \in 1..Len(d) :
     /\ Resolves(d[i])
     /\ \/ NUMERIC \in d[i].indexAs /\ ~StringToDouble(d[i].text).ok
        \/ GEO \in d[i].indexAs /\ Strpbrk(d[i].text) = 0}

\* the code the first failing preprocessor of field f sets
SpecificCode(f) ==
  IF NUMERIC \in f.indexAs /\ ~StringToDouble(f.text).ok THEN "NOTNUMERIC" ELSE "GEOFORMAT"

C7_PartialDispatch ==
  /\ obs.partial =>
       obs.path = (IF INDEXABLES \in obs.flags0 THEN "merge" ELSE "noindex")
  /\ (obs.path = "merge" /\ obs.mergeOk) => (pc = "pool" \/ obs.ati = 1)
  /\ obs.path = "noindex" =>
       /\ obs.ati = 0
       /\ obs.handed = 0
       /\ ~obs.offloaded
       /\ pc \notin {"pool", "indexq", "unblocking"}
       /\ aCtx.doc.docId = 0
       /\ docTable.id = obs.dt0.id
       /\ docTable.maxId = obs.dt0.maxId
       /\ index = EmptyIndex

\* C7 witness: a PARTIAL update without indexable fields set the score of
\* the existing document and nothing else ran
C7_Witness ==
  /\ pc = "done"
  /\ obs.path = "noindex"
  /\ obs.dt0.md.score = 1
  /\ docTable.md.score = 5
  /\ docTable.id = 1

\* totalSize as the claim defines it: the text lengths of the schema-resolved
\* fields indexed as FULLTEXT or TAG
RECURSIVE ResolvedTextSize(_)
ResolvedTextSize(d) ==
  IF d = <<>> THEN 0
  ELSE (IF Resolves(Head(d)) /\ Head(d).indexAs \cap {FULLTEXT, TAG} # {}
        THEN StrLen(Head(d).text) ELSE 0)
       + ResolvedTextSize(Tail(d))

Dispatched == pc = "pool" \/ obs.ati > 0

\* C8: submit enqueues the ingest on the worker pool if and only if the
\* context is blockable and the text of its resolved FULLTEXT or TAG fields
\* adds up to 1024 bytes or more; otherwise addToIndexes runs inline.  A
\* NOBLOCK ingest is never offloaded.
C8_OffloadIffLargeAndBlockable ==
  /\ Dispatched =>
       (obs.offloaded <=>
          (NOBLOCK \notin aCtx.stateFlags /\ ResolvedTextSize(aCtx.doc.fields) >= 1024))
  /\ (obs.offloaded => NOBLOCK \notin aCtx.stateFlags)

\* the dispatch rule of C8 on an ingest that did not go through replaceMerge
C8_HoldsWithoutMerge ==
  (Dispatched /\ obs.path = "full") =>
    (obs.offloaded <=>
       (NOBLOCK \notin aCtx.stateFlags /\ ResolvedTextSize(aCtx.doc.fields) >= 1024))

-----------------------------------------------------------------------------
(* Properties of the garbage collector *)

\* C9: GC soundness.  Every doc id that remains in a posting-list block a
\* pass repaired (term, numeric range or tag) was a live document of the
\* metadata table when the repair of that block began: no entry of a deleted
\* document survives in a repaired block.
C9_GcSoundness ==
  \A r \in gobs.rep : r.kept \subseteq r.liveAt

\* C9 witness: a pass has returned after repairing a term block behind a
\* yield, and it collected the entry of a document deleted before it
C9_Witness ==
  /\ pass.pc = "idle"
  /\ gobs.passes > 0
  /\ gc.stats.totalCollected > 0
  /\ \E r \in gobs.rep : r.kind = "term" /\ r.from > 0 /\ r.kept # {}

\* C10: if the spec is dropped, or dropped and recreated, between two repair
\* batches of a pass, the pass sets status INVALID at its next yield, runs no
\* further repair, changes neither stats nor index of the new spec, and
\* periodicCallback returns false.
C10_DroppedSpecInvalidatesPass ==
  (gobs.dropped /\ gobs.resumed) =>
    /\ pass.pc # "crashed"
    /\ pass.pc \notin Yields
    /\ pass.status = SPEC_STATUS_INVALID
    /\ gobs.batchesAfter = 0
    /\ (pass.pc = "idle" => ~gobs.ret /\ gobs.specAtEnd = gobs.specAtResume)

\* the rule of C10 for the term collector when the spec was created again
\* before the pass resumed and the collector holds the old uniqueId
C10_HoldsWhenRecreated ==
  (gobs.dropped /\ gobs.resumed /\ gobs.specAtResume.exists
     /\ gc.specUniqueId # gobs.specAtResume.uniqueId
     /\ \A r \in gobs.rep : r.kind = "term") =>
    /\ pass.pc = "idle"
    /\ pass.status = SPEC_STATUS_INVALID
    /\ gobs.batchesAfter = 0
    /\ ~gobs.ret
    /\ gobs.specAtEnd = gobs.specAtResume

\* a step of the collector: PeriodicCallback from the lock, or the resumption
\* of a collector behind a yield
GcStep == pass' # pass \/ gobs'.passes # gobs.passes

\* the index has no deleted document and the pass in progress, if any, has
\* met none
NothingDeleted ==
  host.spec.exists /\ host.spec.deleted = {} /\ pass.totalRemoved = 0

\* what a step of the collector over an index without deleted document
\* leaves alone and does to hz
Idempotent ==
  /\ host'.spec = host.spec
  /\ gc'.stats.totalCollected = gc.stats.totalCollected
  /\ gc'.hz <= gc.hz
  /\ gc'.hz >= GC_MIN_HZ

\* C11: GC idempotence.  A pass over an index in which no document has been
\* deleted leaves stats.numRecords, stats.invertedSize, totalCollected and
\* every posting block as they were, and hz does not grow from pass to pass
\* and never drops below GC_MIN_HZ.
C11_GcIdempotence ==
  [][(GcStep /\ NothingDeleted) => Idempotent]_vars

\* the rule of C11 for a collector whose frequency is not below GC_MIN_HZ
C11_HoldsFromMinHz ==
  [][(GcStep /\ NothingDeleted /\ gc.hz >= GC_MIN_HZ) => Idempotent]_vars

\* a pass reached the end of PeriodicCallback and was counted as a cycle
CycleCounted == gc'.stats.numCycles = gc.stats.numCycles + 1

\* a client deleted a document and the collector got the hint
DeleteHinted ==
  host.spec.exists /\ host'.spec.exists /\ host'.spec.deleted \ host.spec.deleted # {}

\* C12: GC rate adaptivity.  After a pass that removed at least one record hz
\* is min(old hz * 1.2, GC_MAX_HZ); after a pass that removed none it is
\* max(old hz * 0.99, GC_MIN_HZ); after onDelete it is
\* min(old hz * 1.5, GC_MAX_HZ).
C12_RateAdaptivity ==
  [][/\ (CycleCounted /\ pass'.totalRemoved > 0) =>
          gc'.hz = (IF (gc.hz * 120) \div 100 < GC_MAX_HZ
                    THEN (gc.hz * 120) \div 100 ELSE GC_MAX_HZ)
     /\ (CycleCounted /\ pass'.totalRemoved = 0) =>
          gc'.hz = (IF (gc.hz * 99) \div 100 > GC_MIN_HZ
                    THEN (gc.hz * 99) \div 100 ELSE GC_MIN_HZ)
     /\ DeleteHinted =>
          gc'.hz = (IF (gc.hz * 150) \div 100 < GC_MAX_HZ
                    THEN (gc.hz * 150) \div 100 ELSE GC_MAX_HZ)]_vars

\* C12 witness: after a delete hint one pass removed records and one removed
\* none, and hz moved each time without reaching a limit
C12_Witness ==
  /\ pass.pc = "idle"
  /\ gc.stats.numCycles = 2
  /\ gc.stats.effectiveCycles = 1
  /\ pass.totalRemoved = 0
  /\ gc.hz = (((((InitialHz * 150) \div 100) * 120) \div 100) * 99) \div 100

\* C13: GC frequency bounds.  In every state after the construction of the
\* collector with any user-configured initial frequency, whatever passes and
\* onDelete hints followed, GC_MIN_HZ <= hz <= GC_MAX_HZ.
C13_HzBounded ==
  GC_MIN_HZ <= gc.hz /\ gc.hz <= GC_MAX_HZ

\* the passes and the hints keep hz inside the bounds once it is inside
C13_BoundsPreserved ==
  [][(GC_MIN_HZ <= gc.hz /\ gc.hz <= GC_MAX_HZ)
       => (GC_MIN_HZ <= gc'.hz /\ gc'.hz <= GC_MAX_HZ)]_vars

\* C14: repair commutes with appends.  When writers only append entries
\* (with larger doc ids) to the term's list while the term collector yields,
\* the pass removes the entries of deleted documents only, loses no appended
\* entry, and leaves the list a repair followed by the appends would leave.
C14_RepairCommutesWithAppends ==
  (gobs.termAfter # <<>> /\ gobs.expect # <<>>) => gobs.termAfter = gobs.expect

\* C14 witness: the term collector ended after a document was appended in one
\* of its yields, and it emptied a block of a deleted document
C14_Witness ==
  /\ gobs.termAfter # <<>>
  /\ gobs.expect # <<>>
  /\ gobs.appends > 0
  /\ \E i \in 1..Len(gobs.termAfter[1]) : gobs.termAfter[1][i] = {}
  /\ \E r \in gobs.rep : r.kind = "term" /\ r.from > 0

\* C15: revision invalidation.  If the tree of the numeric field a pass
\* selected was replaced, or its revisionId changed, since the collector
\* captured it, the pass builds the NumericFieldGC anew from the tree it just
\* opened before it iterates: each iteration runs on the opened tree at its
\* current revision, never on the old tree or its iterator.
C15_RevisionInvalidation ==
  \A i \in gobs.iter : i.rt = i.opened /\ i.revisionId = i.openedRevisionId

\* C15 witness: a pass iterated a tree that had replaced the one an earlier
\* pass captured
C15_Witness ==
  /\ \E d \in gobs.discarded : d.rt <= MaxUniqueId
  /\ \E i \in gobs.iter : i.opened > MaxUniqueId
  /\ \E r \in gobs.rep : r.kind = "num"

\* the fields AddToIndexes hands to the preprocessors, by position
Preprocessed ==
  {i \in 1..Len(aCtx.doc.fields) :
     /\ i <= Len(aCtx.fspecs)
     /\ ~IsNullSpec(aCtx.fspecs[i])
     /\ aCtx.doc.fields[i].indexAs # {}}

\* those of them that go through the numeric preprocessor with a sortable spec
NumericSortables ==
  {i \in Preprocessed : NUMERIC \in aCtx.doc.fields[i].indexAs /\ aCtx.fspecs[i].sortable}

\* AddToIndexes ended in the failure of a numeric preprocessor
NotNumericFailed ==
  obs.ati > 0 /\ obs.preFail /\ aCtx.status.code = "NOTNUMERIC" /\ pc # "crashed"

\* the numeric fields whose text is not a number
NotNumbers ==
  {i \in Preprocessed :
     NUMERIC \in aCtx.doc.fields[i].indexAs /\ ~StringToDouble(aCtx.doc.fields[i].text).ok}

\* after preprocessing without failure each numeric sortable field has its
\* value, typed NUM, in slot sortIdx of the sort vector
NumbersInSlots ==
  pc = "indexq" =>
    \A i \in NumericSortables :
      /\ ~aCtx.sv.null
      /\ aCtx.sv.v[aCtx.fspecs[i].sortIdx + 1].t = "NUM"
      /\ aCtx.sv.v[aCtx.fspecs[i].sortIdx + 1].n = DigitsVal(aCtx.doc.fields[i].text.head)

Overwriters(i) ==
  {j \in Preprocessed :
     j > i /\ aCtx.fspecs[j].sortable /\ aCtx.fspecs[j].sortIdx = aCtx.fspecs[i].sortIdx}

Delimiters == {" ", ","}

\* the fields that go through the geo preprocessor
GeoFields == {i \in Preprocessed : GEO \in aCtx.doc.fields[i].indexAs}

\* lon and lat are the text before and after the delimiter at position k, and
\* no delimiter stands before k
SplitAt(tx, k, lon, lat) ==
  /\ tx.head[k] \in Delimiters
  /\ \A j \in 1..(k - 1) : tx.head[j] \notin Delimiters
  /\ lon.head = SubSeq(tx.head, 1, k - 1) /\ lon.fill = 0 /\ ~lon.null
  /\ lat.head = SubSeq(tx.head, k + 1, Len(tx.head)) /\ lat.fill = tx.fill /\ ~lat.null

HasDelimiter(tx) == \E k \in 1..Len(tx.head) : tx.head[k] \in Delimiters

\* AddToIndexes ended in the failure of a geo preprocessor
GeoFormatFailed ==
  obs.ati > 0 /\ obs.preFail /\ aCtx.status.code = "GEOFORMAT" /\ pc # "crashed"

\* C17: geo parsing.  The geo preprocessor splits the text at the first space
\* or comma, longitude the text before it and latitude the text after it; a
\* text with neither delimiter fails the ingest with GEOFORMAT.
C17_GeoSplit ==
  /\ pc = "indexq" =>
       \A i \in GeoFields :
         \E k \in 1..Len(aCtx.doc.fields[i].text.head) :
           SplitAt(aCtx.doc.fields[i].text, k,
                   aCtx.fdatas[i].geoSlon, aCtx.fdatas[i].geoSlat)
  /\ GeoFormatFailed =>
       \E i \in GeoFields : ~HasDelimiter(aCtx.doc.fields[i].text)
  /\ (obs.ati > 0 /\ pc # "crashed"
        /\ \E i \in GeoFields : ~HasDelimiter(aCtx.doc.fields[i].text)) =>
       obs.preFail

\* C17 witness: a location with a space before a comma was cut at the space
C17_Witness ==
  /\ pc = "indexq"
  /\ \E i \in GeoFields :
       /\ aCtx.doc.fields[i].text = TGeoBoth
       /\ aCtx.fdatas[i].geoSlon = Text(<<"1">>, 0)
       /\ aCtx.fdatas[i].geoSlat = Text(<<"2", ",", "3">>, 0)

\* the fields as the caller hands them in, no indexAs chosen
AsHandedIn(fields) == [i \in 1..Len(fields) |-> [fields[i] EXCEPT !.indexAs = {}]]

\* the state flags SetDocument leaves in a context that held nothing before
FreshFlags(fields) ==
  SetDocument(NewCtx, [NoDoc EXCEPT !.fields = AsHandedIn(fields)]).c.stateFlags

\* ReplaceMerge has run SetDocument on the reloaded document with success
MergedOk ==
  obs.path = "merge" /\ obs.mergeOk /\ obs.mergeSetOk /\ pc # "crashed"

\* C18: state-flag determinism.  The state flags after setDocument(spec, doc,
\* oldFieldCount) depend on the arguments only, not on the flags or the sort
\* vector the context held before the call: the call ReplaceMerge makes on a
\* context that has run setDocument before leaves the flags the same document
\* gives a context that held nothing.
C18_StateFlagDeterminism ==
  MergedOk => aCtx.stateFlags \ {NOBLOCK} = FreshFlags(aCtx.doc.fields) \ {NOBLOCK}

\* the three flags SetDocument clears when it starts are those of the call
C18_ClearedFlagsAgree ==
  MergedOk =>
    aCtx.stateFlags \cap {INDEXABLES, TEXTINDEXED, OTHERINDEXED}
      = FreshFlags(aCtx.doc.fields) \cap {INDEXABLES, TEXTINDEXED, OTHERINDEXED}

\* the fields of the context's document that SetDocument resolved and that
\* the schema indexes, as text and as something else
TextIndexed ==
  {i \in 1..Len(aCtx.doc.fields) :
     /\ Resolves(aCtx.doc.fields[i])
     /\ GetField(aCtx.doc.fields[i].name).indexable
     /\ FULLTEXT \in aCtx.doc.fields[i].indexAs}

OtherIndexed ==
  {i \in 1..Len(aCtx.doc.fields) :
     /\ Resolves(aCtx.doc.fields[i])
     /\ GetField(aCtx.doc.fields[i].name).indexable
     /\ aCtx.doc.fields[i].indexAs # {FULLTEXT}}

\* the last call of SetDocument on the context succeeded and nothing but the
\* preprocessors has touched the context since
AfterSetDocument ==
  /\ pc \in {"ready", "pool", "indexq"}
  /\ obs.path = "merge" => obs.mergeOk /\ obs.mergeSetOk

\* C19: flag coherence.  After every successful setDocument INDEXABLES is set
\* iff some field is text-indexed or other-indexed, TEXTINDEXED iff no field
\* is text-indexed, OTHERINDEXED iff no field is other-indexed, and EMPTY iff
\* the context has no sort vector and no field is text- or other-indexed.
C19_FlagCoherence ==
  AfterSetDocument =>
    /\ INDEXABLES \in aCtx.stateFlags <=> (TextIndexed # {} \/ OtherIndexed # {})
    /\ TEXTINDEXED \in aCtx.stateFlags <=> TextIndexed = {}
    /\ OTHERINDEXED \in aCtx.stateFlags <=> OtherIndexed = {}
    /\ EMPTY \in aCtx.stateFlags <=>
         (aCtx.sv.null /\ TextIndexed = {} /\ OtherIndexed = {})

\* C19 witness: the second call of SetDocument on a context, made by
\* ReplaceMerge, found no indexed field in the reloaded document
C19_Witness ==
  /\ AfterSetDocument
  /\ obs.path = "merge"
  /\ INDEXABLES \in obs.flags0
  /\ INDEXABLES \notin aCtx.stateFlags
  /\ {TEXTINDEXED, OTHERINDEXED} \subseteq aCtx.stateFlags

\* PeriodicCallback is over: it returned, or an error left it
CallbackEnded == pass.pc \in {"idle", "thrown"}

\* C20: lock discipline.  After periodicCallback ends in any way (a normal
\* pass, the skip while a snapshot loads, INVALID, or a defensive error raised
\* in the numeric collector) the collector no longer holds the thread-safe
\* lock, and every repair and stats update ran with the lock held.
C20_LockDiscipline ==
  /\ CallbackEnded => host.lock # "gc"
  /\ \A r \in gobs.rep : r.locked

\* the rule of C20 for the calls that return
C20_HoldsOnReturn ==
  /\ pass.pc = "idle" => host.lock # "gc"
  /\ \A r \in gobs.rep : r.locked

\* a call that returned after repairs behind a yield, the lock free again
C20_ReturnedUnlocked ==
  /\ pass.pc = "idle"
  /\ gobs.passes > 0
  /\ host.lock = "free"
  /\ \E r \in gobs.rep : r.from > 0 /\ r.locked

\* PeriodicCallback is entered while the collector still asks the host and the
\* host is loading a snapshot
SkippedCall ==
  pass.pc = "idle" /\ GcStep /\ gc.rdbPossiblyLoading /\ host.loading

\* C21: RDB-loading guard.  A periodicCallback invoked while rdbPossiblyLoading
\* is set and the host is loading a snapshot runs none of the three
\* collectors, leaves hz, numCycles, effectiveCycles, totalCollected, the
\* stats of the spec and every index as they were, and returns with status OK.
C21_LoadingGuard ==
  [][SkippedCall =>
       /\ gc' = gc
       /\ host'.spec = host.spec
       /\ host'.lock = "free"
       /\ pass'.pc = "idle"
       /\ pass'.status = SPEC_STATUS_OK
       /\ ~pass'.sctx
       /\ gobs'.ret
       /\ gobs'.rep = {}
       /\ gobs'.iter = {}]_vars

\* C21 witness: a call was skipped over an index that has a deleted document
\* to collect
C21_Witness ==
  /\ pass.pc = "idle"
  /\ gobs.passes > 0
  /\ gc.rdbPossiblyLoading
  /\ host.loading
  /\ gc.stats.numCycles = 0
  /\ host.spec.exists /\ host.spec.deleted # {}
  /\ BlocksCard(host.spec.term) = MaxDocs

\* PeriodicCallback is entered
CallbackEntered == pass.pc = "idle" /\ GcStep

\* the call went past the guard: a collector left its mark on the pass, or the
\* pass was counted as a cycle
CollectorsRun == pass'.pc # "idle" \/ pass'.sctx \/ CycleCounted

\* C22: rdbPossiblyLoading is true at construction, changes only from true to
\* false, does so at the first periodicCallback in which the host reports not
\* loading, and is never set again; from that pass on the loading state of
\* the host is not asked for and every periodicCallback runs the collectors.
C22_LoadingFlagMonotone ==
  /\ gc.rdbPossiblyLoading
  /\ [][/\ gc'.rdbPossiblyLoading # gc.rdbPossiblyLoading =>
             /\ gc.rdbPossiblyLoading
             /\ CallbackEntered
             /\ ~host.loading
        /\ (CallbackEntered /\ gc.rdbPossiblyLoading /\ ~host.loading) =>
             ~gc'.rdbPossiblyLoading
        /\ (CallbackEntered /\ ~(gc.rdbPossiblyLoading /\ host.loading)) =>
             CollectorsRun]_vars

\* C22 witness: the flag is cleared, the host loads a snapshot again, and a
\* pass has run its collectors all the same
C22_Witness ==
  /\ ~gc.rdbPossiblyLoading
  /\ host.loading
  /\ host.reloads > 0
  /\ gc.stats.numCycles = MaxPasses

-----------------------------------------------------------------------------
\* C23: an UpdateNoIndex that fails at any of its checks leaves the metadata
\* of the document as it was (score, payload and every slot of the sorting
\* vector), and writes nothing to the metadata once the failure is detected.
C23_FailedUpdateKeepsMetadata ==
  (obs.path = "noindex" /\ HasError(aCtx.status)) =>
     (docTable.md = obs.dt0.md /\ ~obs.late)

-----------------------------------------------------------------------------
\* C24: at every yield of each of the three collectors the spec is resolved
\* again under the key name of the spec, never under the key of a field
\* index: while the spec exists the resumed collector finds it.
ResumedAt(kinds) ==
  /\ pass.pc \in {PcYield(k) : k \in kinds}
  /\ GcStep
  /\ host.spec.exists

C24_YieldsResolveSpecKey ==
  [][ResumedAt({"term", "num", "tag"}) => pass'.sctx]_vars

\* the same for the yields of CollectRandomTerm alone
C24_HoldsForTermYields ==
  [][ResumedAt({"term"}) => pass'.sctx]_vars

-----------------------------------------------------------------------------
\* C25: a collector constructed with the id U of its spec holds
\* specUniqueId = U, and as long as the spec exists with uniqueId U no
\* collector sets the status to INVALID and PeriodicCallback returns true.
ConstructedFor == IndexedSpec({}).uniqueId

SpecKept == host.spec.exists /\ host.spec.uniqueId = ConstructedFor

C25_UniqueIdHeld ==
  /\ gc.specUniqueId = ConstructedFor
  /\ SpecKept => (pass.status = SPEC_STATUS_OK /\ gobs.ret)

\* the second half for a member that happens to hold U
C25_HoldsForMatchingMember ==
  (gc.specUniqueId = ConstructedFor /\ SpecKept) =>
     (pass.status = SPEC_STATUS_OK /\ gobs.ret)

-----------------------------------------------------------------------------
\* C26: whenever AddToIndexes runs, fspecs has exactly one entry per field
\* of the document and fspecs[i] is the FieldSpec the schema resolves for
\* doc.fields[i], or the empty spec; also after the second SetDocument of
\* ReplaceMerge.
SpecOf(f) == IF f.text.null THEN EmptyFieldSpec ELSE GetField(f.name)

FspecsAligned ==
  /\ Len(aCtx.fspecs) = Len(aCtx.doc.fields)
  /\ \A i \in 1..Len(aCtx.fspecs) :
        i <= Len(aCtx.doc.fields) => aCtx.fspecs[i] = SpecOf(aCtx.doc.fields[i])

C26_FspecsAligned == obs.ati > 0 => FspecsAligned

\* the same for an AddToIndexes that no ReplaceMerge preceded
C26_HoldsWithoutMerge == (obs.ati > 0 /\ obs.path # "merge") => FspecsAligned

-----------------------------------------------------------------------------
\* C27: each successful insert of a non-text field (numeric, tag and geo
\* alike) increments stats.numRecords by exactly one and adds the growth of
\* the index to stats.invertedSize.
\* the inserts of the given types the bulk indexer made for fields i.. of
\* the indexed document
RECURSIVE InsertsFrom(_, _)
InsertsFrom(i, types) ==
  IF i > Len(aCtx.doc.fields) \/ i > Len(aCtx.fspecs) THEN 0
  ELSE (IF IsNullSpec(aCtx.fspecs[i]) \/ aCtx.fspecs[i].types = {FULLTEXT}
           \/ ~aCtx.fspecs[i].indexable
        THEN 0
        ELSE Cardinality(aCtx.doc.fields[i].indexAs \cap types))
       + InsertsFrom(i + 1, types)

C27_RecordPerInsert ==
  obs.handed > 0 => index.stats.numRecords = InsertsFrom(1, {NUMERIC, TAG, GEO})

\* the same count without the geo inserts
C27_HoldsForNumericAndTag ==
  obs.handed > 0 => index.stats.numRecords = InsertsFrom(1, {NUMERIC, TAG})

-----------------------------------------------------------------------------
\* C28: stats.numRecords never underflows: what the passes of the collector
\* subtract for the postings of deleted documents (one per posting, so one
\* per value of a tag field with several values) never exceeds what the
\* bulk indexer added for these documents.
C28_NumRecordsNeverUnderflows == host.spec.stats.numRecords >= 0

-----------------------------------------------------------------------------
\* C29: for a sortable tag field the tag preprocessor writes the raw text,
\* typed STR, into slot sortIdx of the sort vector for every input text,
\* also for a text that parses to an empty collection of tags.
TagSortables ==
  {i \in Preprocessed :
     /\ TAG \in aCtx.doc.fields[i].indexAs
     /\ aCtx.fspecs[i].sortable
     /\ Overwriters(i) = {}}

RawTextInSlot(i) ==
  /\ ~aCtx.sv.null
  /\ aCtx.sv.v[aCtx.fspecs[i].sortIdx + 1] = SVStr(aCtx.doc.fields[i].text)

C29_TagSortable == pc = "indexq" => \A i \in TagSortables : RawTextInSlot(i)

\* the same for the texts that hold at least one tag
C29_HoldsForTexts ==
  pc = "indexq" =>
    \A i \in TagSortables : Tags(aCtx.doc.fields[i].text) # NoTags => RawTextInSlot(i)

-----------------------------------------------------------------------------
\* C30: NextGcNode returns only a node that owns a range; it makes the
\* iterator anew from the root at most once per call; when the second
\* iteration yields no node either it raises an error, it neither loops nor
\* returns.
NoRange == \A j \in 1..Len(host.spec.num.nodes) : ~host.spec.num.nodes[j]

C30_NextGcNode ==
  /\ \A r \in gobs.iter :
       /\ r.recreated <= 1
       /\ r.node # 0 => (r.node <= Len(host.spec.num.nodes) /\ host.spec.num.nodes[r.node])
       /\ r.node = 0 => (r.recreated = 1 /\ pass.pc = "thrown")
  /\ (NoRange /\ gobs.iter # {}) => pass.pc = "thrown"
  /\ pass.pc = "thrown" => NoRange

\* C30 witness: a call found the iterator exhausted, made it anew and
\* returned a node with a range that stands behind one without
C30_Witness ==
  \E r \in gobs.iter :
    /\ r.recreated = 1
    /\ r.node > 1
    /\ host.spec.num.nodes[r.node]
    /\ ~host.spec.num.nodes[1]
    /\ r.from > r.node

-----------------------------------------------------------------------------
\* C31: every pass of the collector terminates: the repair loop of each
\* collector ends after finitely many batches, also when writers append or
\* the index is replaced during the yields, so PeriodicCallback eventually
\* returns and releases the lock.
C31_PassTerminates ==
  (pass.pc # "idle") ~> (pass.pc = "idle" /\ host.lock = "free")

\* the repair loops themselves end: a collector that has yielded leaves its
\* loop, by the return of the callback, by a fault or by an exception
C31_LoopsEnd == (pass.pc \in Yields) ~> (pass.pc \notin Yields)

=============================================================================
